---- MODULE Spec2Model ----
(***************************************************************************)
(* Model of the transcript-to-report pipeline: text cleaning, temporal     *)
(* merging, topic segmentation, chunking (src/preprocessing) and the       *)
(* segment-to-section assignment (src/analysis/vectorizer.py).             *)
(*                                                                         *)
(* Each component has its own specification (Init/Next pair) over the      *)
(* shared variables; the variables of the other components stay idle.      *)
(***************************************************************************)
EXTENDS Integers, Sequences, FiniteSets, TLC

VARIABLES
    \* create_text_chunks (src/preprocessing/segmenter.py)
    ck_pc,        \* "idle" | "call" | "loop" | "returned" | "memory_error"
    ck_text,      \* the text argument
    ck_max,       \* max_chunk_size
    ck_overlap,   \* overlap
    ck_start,     \* the local `start`
    ck_chunks,    \* the local list `chunks`, each chunk the slice text[start:end]
    \* assign_segments_to_sections / process_segments_and_sections
    \* (src/analysis/vectorizer.py)
    as_pc,            \* "idle" | "call_process" | "vectorize" | "call_assign"
                      \* | "assign" | "sort" | "returned" | "raised"
    as_entry,         \* which function was called: "assign" | "process" | "none"
    as_segments_file, \* the file at segments_path
    as_structure,     \* the file at structure_path
    as_vec_ok,        \* whether the vectorization backend yields comparable vectors
    as_segments,      \* `segments`
    as_sections,      \* `sections` (the flattened outline)
    as_sim,           \* `similarity_matrix` (segments x sections), in units of 0.1
    as_top_n,         \* `top_n`
    as_threshold,     \* `threshold`, in units of 0.1
    as_i,             \* the loop index of line 197 (1-based)
    as_assignments,   \* `assignments`; the return value once as_pc = "returned"
    as_out_file,      \* the file at output_path
    \* merge_related_segments (src/preprocessing/cleaner.py)
    mg_pc,            \* "idle" | "call" | "loop" | "returned"
    mg_input,         \* the argument `segments` as it was when the call began
    mg_segments,      \* the argument `segments` (its timestamp dicts are shared
                      \* with the copies made of its records)
    mg_max_gap,       \* `max_gap_seconds`
    mg_i,             \* the loop index of line 178 (1-based)
    mg_current,       \* `current_segment`
    mg_merged,        \* `merged_segments`
    \* segment_by_topics (src/preprocessing/segmenter.py)
    tp_pc,            \* "idle" | "call" | "returned"
    tp_segments,      \* the argument `segments`
    tp_threshold,     \* `threshold`, in units of 0.1
    tp_min_length,    \* `min_segment_length`
    tp_vec_ok,        \* whether vectorizer.fit_transform succeeds (no ValueError)
    tp_similarities,  \* `similarities` of the consecutive valid texts, units of 0.1
    tp_result,        \* the list returned
    \* the per-utterance cleaning of clean_transcription (src/preprocessing/cleaner.py)
    cl_pc,            \* "idle" | "extract" | "correct" | "normalize" | "speaker" | "cleaned"
    cl_captured,      \* the text captured after "[HH:MM:SS - HH:MM:SS]:"
    cl_text,          \* segment['text']
    cl_pass,          \* how many times the cleaning sequence has been begun
    cl_first,         \* the output of the first pass of the cleaning sequence
    \* main (src/main.py), stages 1 and 2, with clean_transcription and
    \* process_transcription_for_analysis
    pl_pc,                \* "idle" | "main_clean" | "analysis_clean" | "merging"
                          \* | "topics" | "chunking" | "stage2" | "analysis"
                          \* | "done" | "failed"
    pl_caller,            \* who called clean_transcription: "main" | "analysis" | "none"
    pl_transcription,     \* the file at args.transcription
    pl_structure,         \* the file at args.structure
    pl_cleaned_file,      \* the file at cleaned_file
    pl_clean_segments,    \* `clean_segments` of process_transcription_for_analysis
    pl_k,                 \* the loop index of line 202 (1-based)
    pl_analysis_segments, \* `analysis_segments`
    pl_segments,          \* `segments` of main: the list stage 1 returned
    \* the TF-IDF path of process_segments_and_sections (vectorizer.py:286-294)
    vz_pc,                \* "idle" | "sections" | "segments" | "similarity"
                          \* | "computed" | "raised"
    vz_stop_words_ok,     \* whether TfidfVectorizer accepts stop_words='spanish'
    vz_segment_texts,     \* `segment_texts`, each text the list of its tokens
    vz_section_texts,     \* `section_texts`, each text the list of its tokens
    vz_section_vectors,   \* `section_vectors`
    vz_segment_vectors,   \* `segment_vectors`
    vz_similarity,        \* `similarity_matrix`
    \* extract_sections_data (src/analysis/vectorizer.py)
    ol_pc,                \* "idle" | "call" | "returned" | "raised"
    ol_structure,         \* structure['secciones'] as it was when the call began
    ol_outline,           \* structure['secciones'], the object the walk reads
    ol_sections,          \* the list returned
    \* main (src/main.py), the four stages and what each leaves behind
    mn_pc,                \* "idle" | "stage1" | "stage2" | "stage3" | "stage4" | "returned"
    mn_args,              \* args.skip_preprocessing, skip_analysis, skip_generation
    mn_env,               \* what the run finds: the input files, the files of
                          \* earlier runs, and whether the backends work
    mn_segments_file,     \* whether the file named by `segments_file` exists
    mn_assignments_file,  \* whether the file named by `assignments_file` exists
    mn_content_file,      \* whether the file named by `content_file` exists
    mn_started,           \* the stages begun (not skipped), in the order begun
    mn_failed,            \* the stages whose function could not do its work
    mn_code,              \* the value main returned: 0 or 1 (-1: none yet)
    \* process_all_sections (src/generation/ai_client.py)
    gn_pc,                \* "idle" | "call" | "loop" | "returned" | "raised"
    gn_client_type,       \* `client_type`
    gn_keys_ok,           \* which API keys are configured: [openai, anthropic]
    gn_client,            \* `client`: "none" | "openai" | "anthropic"
    gn_assignments,       \* the keys of `assignments`, in the order of the dict
    gn_section_ids,       \* the keys of `sections_dict`
    gn_k,                 \* the position of the loop of line 383 (1-based)
    gn_calls,             \* the calls of client.generate_text: [id, ok]
    gn_generated,         \* result_structure['secciones_generadas']
    \* transcribir_audio_por_segmentos (src/transcripcionAudio.py) and the
    \* parse of its output by extract_timestamped_segments
    tr_pc,                \* "idle" | "open" | "load" | "loop" | "except" | "finish"
                          \* | "returned" | "raised" | "parsed"
    tr_audio_ok,          \* whether AudioSegment.from_wav(ruta_audio) succeeds
    tr_duration,          \* the length of the audio, in seconds
    tr_outcomes,          \* for each segment, what its export and recognition do
    tr_i,                 \* the loop index `i` of line 47
    tr_timer_set,         \* whether `tiempo_inicio_total` has been assigned
    tr_file,              \* the content of the file at ruta_salida
    tr_lines,             \* the segment lines written: [start, end, text]
    tr_error,             \* whether the handler of line 95 ran
    tr_result,            \* the value returned ("none": nothing yet)
    tr_parsed             \* what extract_timestamped_segments makes of the file

ck_vars == <<ck_pc, ck_text, ck_max, ck_overlap, ck_start, ck_chunks>>

as_vars == <<as_pc, as_entry, as_segments_file, as_structure, as_vec_ok, as_segments,
             as_sections, as_sim, as_top_n, as_threshold, as_i, as_assignments,
             as_out_file>>

mg_vars == <<mg_pc, mg_input, mg_segments, mg_max_gap, mg_i, mg_current, mg_merged>>

tp_vars == <<tp_pc, tp_segments, tp_threshold, tp_min_length, tp_vec_ok,
             tp_similarities, tp_result>>

cl_vars == <<cl_pc, cl_captured, cl_text, cl_pass, cl_first>>

pl_vars == <<pl_pc, pl_caller, pl_transcription, pl_structure, pl_cleaned_file,
             pl_clean_segments, pl_k, pl_analysis_segments, pl_segments>>

vz_vars == <<vz_pc, vz_stop_words_ok, vz_segment_texts, vz_section_texts,
             vz_section_vectors, vz_segment_vectors, vz_similarity>>

ol_vars == <<ol_pc, ol_structure, ol_outline, ol_sections>>

mn_vars == <<mn_pc, mn_args, mn_env, mn_segments_file, mn_assignments_file, mn_content_file, mn_started, mn_failed, mn_code>>

gn_vars == <<gn_pc, gn_client_type, gn_keys_ok, gn_client, gn_assignments, gn_section_ids, gn_k, gn_calls, gn_generated>>

tr_vars == <<tr_pc, tr_audio_ok, tr_duration, tr_outcomes, tr_i, tr_timer_set, tr_file, tr_lines, tr_error, tr_result, tr_parsed>>

vars == <<ck_vars, as_vars, mg_vars, tp_vars, cl_vars, pl_vars, vz_vars, ol_vars, mn_vars, gn_vars, tr_vars>>

(***************************************************************************)
(* Generic helpers                                                         *)
(***************************************************************************)
Min(a, b) == IF a <= b THEN a ELSE b
Max(a, b) == IF a >= b THEN a ELSE b
SetMax(S) == CHOOSE x \in S : \A y \in S : y <= x

(***************************************************************************)
(* Texts, as len(), rfind('.'), rfind('\n'), slicing and joining see them. *)
(* A text over the alphabet {letter, '.', '\n', ' '} is given exactly by   *)
(* its length and the 0-based positions of its periods, newlines, spaces.  *)
(***************************************************************************)
Text(n, dots, nls, sps) == [len |-> n, dots |-> dots, nls |-> nls, sps |-> sps]

EmptyText == Text(0, {}, {}, {})

\* Python text[start:end] for 0 <= start <= end <= len(text)
Slice(text, start, end) ==
    Text(end - start,
         {p - start : p \in {q \in text.dots : start <= q /\ q < end}},
         {p - start : p \in {q \in text.nls : start <= q /\ q < end}},
         {p - start : p \in {q \in text.sps : start <= q /\ q < end}})

\* Python a + b
Concat(a, b) ==
    Text(a.len + b.len,
         a.dots \cup {p + a.len : p \in b.dots},
         a.nls \cup {p + a.len : p \in b.nls},
         a.sps \cup {p + a.len : p \in b.sps})

\* the string " "
Space == Text(1, {}, {}, {0})

\* Python " ".join(texts)
RECURSIVE JoinSpace(_)
JoinSpace(texts) ==
    IF texts = << >> THEN EmptyText
    ELSE IF Len(texts) = 1 THEN texts[1]
    ELSE Concat(Concat(texts[1], Space), JoinSpace(Tail(texts)))

\* Python str.rfind(ch, start, end) on the positions `marks` of ch: -1 when absent
rfind(marks, start, end) ==
    LET found == {p \in marks : start <= p /\ p < end}
    IN IF found = {} THEN -1 ELSE SetMax(found)

(***************************************************************************)
(* Bounds of the chunker specification                                     *)
(***************************************************************************)
MaxTextLen == 5       \* small texts: every length 0..MaxTextLen, every content
MaxChunkSize == 4     \* max_chunk_size drawn from 1..MaxChunkSize
MaxOverlap == 2       \* overlap drawn from 0..MaxOverlap
MaxChunks == 8        \* list capacity: appending beyond it is a MemoryError

\* Program defaults of create_text_chunks and the 2500-character scenario text
DefaultMaxChunkSize == 1000
DefaultOverlap == 100
ScenarioLen == 2500
\* positions where the scenario text may carry a period or a newline
ScenarioMarks == {400, 501, 999, 1450, 1899, 2450}

SmallTexts ==
    UNION { { Text(n, d, l, {}) : d \in SUBSET (0 .. n - 1),
                               l \in SUBSET (0 .. n - 1) } : n \in 0 .. MaxTextLen }

ScenarioTexts ==
    { Text(ScenarioLen, d, l, {}) : d \in SUBSET ScenarioMarks, l \in SUBSET ScenarioMarks }

WellFormedText(t) == t.dots \cap t.nls = {}

(***************************************************************************)
(* create_text_chunks, segmenter.py:132-172                                *)
(***************************************************************************)
\* what the chunker leaves alone
ChunkFrame == UNCHANGED <<as_vars, mg_vars, tp_vars, cl_vars, pl_vars, vz_vars, ol_vars, mn_vars, gn_vars, tr_vars>>

\* mutant of ChunkEnd: the window of line 152 is one character too wide
ChunkEnd_Oversize(text, start, max_chunk_size) ==
    Min(start + max_chunk_size + 1, text.len)

\* One evaluation of lines 152-164: the end of the chunk that starts at `start`
ChunkEnd(text, start, max_chunk_size) ==
    LET end0 == Min(start + max_chunk_size, text.len)
        last_period == rfind(text.dots, start, end0)
        last_newline == rfind(text.nls, start, end0)
    IN IF end0 < text.len
       THEN IF last_period > start + (max_chunk_size \div 2) THEN last_period + 1
            ELSE IF last_newline > start + (max_chunk_size \div 2) THEN last_newline + 1
            ELSE end0
       ELSE end0

\* Line 170: the start of the next chunk
NextStart(end, overlap) == Max(0, end - overlap)

\* Lines 144-148: the early return for short texts, else enter the loop
ChunkCall ==
    /\ ck_pc = "call"
    /\ IF ck_text.len <= ck_max
       THEN /\ ck_chunks' = << [start |-> 0, end |-> ck_text.len] >>
            /\ ck_pc' = "returned"
       ELSE /\ ck_chunks' = << >>
            /\ ck_pc' = "loop"
    /\ ck_start' = 0
    /\ UNCHANGED <<ck_text, ck_max, ck_overlap>>
    /\ ChunkFrame

\* Lines 150-170: one iteration of the while loop
ChunkStep ==
    /\ ck_pc = "loop"
    /\ ck_start < ck_text.len
    /\ Len(ck_chunks) < MaxChunks
    /\ LET end == ChunkEnd(ck_text, ck_start, ck_max)
       IN /\ ck_chunks' = Append(ck_chunks, [start |-> ck_start, end |-> end])
          /\ ck_start' = NextStart(end, ck_overlap)
    /\ UNCHANGED <<ck_pc, ck_text, ck_max, ck_overlap>>
    /\ ChunkFrame

\* Line 167 when the list cannot grow any more: chunks.append raises MemoryError
ChunkMemoryError ==
    /\ ck_pc = "loop"
    /\ ck_start < ck_text.len
    /\ Len(ck_chunks) >= MaxChunks
    /\ ck_pc' = "memory_error"
    /\ UNCHANGED <<ck_text, ck_max, ck_overlap, ck_start, ck_chunks>>
    /\ ChunkFrame

\* Lines 150, 172: the loop condition fails and the list is returned
ChunkReturn ==
    /\ ck_pc = "loop"
    /\ ck_start >= ck_text.len
    /\ ck_pc' = "returned"
    /\ UNCHANGED <<ck_text, ck_max, ck_overlap, ck_start, ck_chunks>>
    /\ ChunkFrame

ChunkIdle ==
    /\ ck_pc = "idle" /\ ck_text = EmptyText /\ ck_max = 0
    /\ ck_overlap = 0 /\ ck_start = 0 /\ ck_chunks = << >>

AssignIdle ==
    /\ as_pc = "idle" /\ as_entry = "none"
    /\ as_segments_file = [exists |-> FALSE, data |-> << >>]
    /\ as_structure = [exists |-> FALSE, secciones |-> << >>]
    /\ as_vec_ok = FALSE
    /\ as_segments = << >> /\ as_sections = << >> /\ as_sim = << >>
    /\ as_top_n = 0 /\ as_threshold = 0 /\ as_i = 0
    /\ as_assignments = << >>
    /\ as_out_file = [path |-> FALSE, written |-> FALSE, data |-> << >>]

\* no record yet: current_segment before line 176
NoSegment == [ts |-> 0, text |-> EmptyText, members |-> << >>]

MergeIdle ==
    /\ mg_pc = "idle" /\ mg_input = << >> /\ mg_segments = << >>
    /\ mg_max_gap = 0 /\ mg_i = 0 /\ mg_current = NoSegment /\ mg_merged = << >>

TopicsIdle ==
    /\ tp_pc = "idle" /\ tp_segments = << >> /\ tp_threshold = 0
    /\ tp_min_length = 0 /\ tp_vec_ok = FALSE /\ tp_similarities = << >>
    /\ tp_result = << >>

CleanIdle ==
    /\ cl_pc = "idle" /\ cl_captured = "" /\ cl_text = ""
    /\ cl_pass = 0 /\ cl_first = ""

NoFile == [exists |-> FALSE, data |-> << >>]

PipeIdle ==
    /\ pl_pc = "idle" /\ pl_caller = "none"
    /\ pl_transcription = NoFile
    /\ pl_structure = [exists |-> FALSE, secciones |-> << >>]
    /\ pl_cleaned_file = NoFile
    /\ pl_clean_segments = << >> /\ pl_k = 0
    /\ pl_analysis_segments = << >> /\ pl_segments = << >>

\* no matrix yet
NoVectors == [rows |-> 0, vocabulary |-> {}, counts |-> << >>]

VectorizeIdle ==
    /\ vz_pc = "idle" /\ vz_stop_words_ok = FALSE
    /\ vz_segment_texts = << >> /\ vz_section_texts = << >>
    /\ vz_section_vectors = NoVectors /\ vz_segment_vectors = NoVectors
    /\ vz_similarity = << >>

OutlineIdle ==
    /\ ol_pc = "idle" /\ ol_structure = << >> /\ ol_outline = << >>
    /\ ol_sections = << >>

NoArgs == [skip_preprocessing |-> FALSE, skip_analysis |-> FALSE, skip_generation |-> FALSE]

NoEnv ==
    [transcription |-> "missing", structure |-> "missing",
     old_segments |-> FALSE, old_assignments |-> FALSE, old_content |-> FALSE,
     vectors |-> FALSE, client |-> FALSE, builder |-> FALSE]

MainIdle ==
    /\ mn_pc = "idle" /\ mn_args = NoArgs /\ mn_env = NoEnv
    /\ mn_segments_file = FALSE /\ mn_assignments_file = FALSE
    /\ mn_content_file = FALSE
    /\ mn_started = << >> /\ mn_failed = {} /\ mn_code = -1

GenerateIdle ==
    /\ gn_pc = "idle" /\ gn_client_type = "openai"
    /\ gn_keys_ok = [openai |-> FALSE, anthropic |-> FALSE]
    /\ gn_client = "none" /\ gn_assignments = << >> /\ gn_section_ids = {}
    /\ gn_k = 0 /\ gn_calls = << >> /\ gn_generated = << >>

TranscribeIdle ==
    /\ tr_pc = "idle" /\ tr_audio_ok = FALSE /\ tr_duration = 0
    /\ tr_outcomes = << >> /\ tr_i = 0 /\ tr_timer_set = FALSE
    /\ tr_file = "" /\ tr_lines = << >> /\ tr_error = FALSE
    /\ tr_result = "none" /\ tr_parsed = << >>

InitChunks ==
    /\ TranscribeIdle
    /\ GenerateIdle
    /\ MainIdle
    /\ OutlineIdle
    /\ VectorizeIdle
    /\ AssignIdle
    /\ MergeIdle
    /\ TopicsIdle
    /\ CleanIdle
    /\ PipeIdle
    /\ ck_pc = "call"
    /\ \/ /\ ck_text \in SmallTexts
          /\ ck_max \in 1 .. MaxChunkSize
          /\ ck_overlap \in 0 .. MaxOverlap
       \/ /\ ck_text \in ScenarioTexts
          /\ ck_max = DefaultMaxChunkSize
          /\ ck_overlap \in {0, DefaultOverlap}
    /\ WellFormedText(ck_text)
    /\ ck_start = 0
    /\ ck_chunks = << >>

NextChunks == ChunkCall \/ ChunkStep \/ ChunkMemoryError \/ ChunkReturn

SpecChunks == InitChunks /\ [][NextChunks]_vars

\* the chunk texts, as returned
ChunkTexts == [k \in 1 .. Len(ck_chunks) |->
                  Slice(ck_text, ck_chunks[k].start, ck_chunks[k].end)]

(***************************************************************************)
(* C1: create_text_chunks terminates and returns a finite list for every   *)
(* text longer than max_chunk_size and every 0 < overlap < max_chunk_size/2*)
(* The loop body is a deterministic function of `start` (text and          *)
(* parameters never change), so a call that terminates never runs an       *)
(* iteration that leaves `start` where it was with the loop still running: *)
(* such an iteration repeats for ever.                                     *)
(***************************************************************************)
C1_Precondition ==
    /\ ck_text.len > ck_max
    /\ 0 < ck_overlap
    /\ 2 * ck_overlap < ck_max

C1_Terminates ==
    [][(ck_pc = "loop" /\ C1_Precondition /\ ck_pc' = "loop"
          /\ ck_start' < ck_text.len)
        => ck_start' # ck_start]_vars

(***************************************************************************)
(* C2: a 2500-character text with max_chunk_size=1000, overlap=100 gives   *)
(* exactly 3 chunks, each at most 1000 characters, each chunk after the    *)
(* first beginning with the last 100 characters of the previous chunk.     *)
(* The list only grows, so it never holds more than 3 chunks, and holds    *)
(* exactly 3 of that shape when it is returned.                            *)
(***************************************************************************)
C2_Scenario ==
    /\ ck_text.len = ScenarioLen
    /\ ck_max = DefaultMaxChunkSize
    /\ ck_overlap = DefaultOverlap

C2_ScenarioThreeChunks ==
    C2_Scenario =>
        /\ Len(ck_chunks) <= 3
        /\ ck_pc = "returned" =>
              /\ Len(ck_chunks) = 3
              /\ \A k \in 1 .. 3 : ChunkTexts[k].len <= DefaultMaxChunkSize
              /\ \A k \in 2 .. 3 :
                    /\ ChunkTexts[k].len >= DefaultOverlap
                    /\ ChunkTexts[k - 1].len >= DefaultOverlap
                    /\ Slice(ChunkTexts[k], 0, DefaultOverlap)
                         = Slice(ChunkTexts[k - 1],
                                 ChunkTexts[k - 1].len - DefaultOverlap,
                                 ChunkTexts[k - 1].len)

(***************************************************************************)
(* Outlines and extract_sections_data, vectorizer.py:62-108                *)
(***************************************************************************)
\* marks a key that a section record lacks (section['id'] raises KeyError)
NoKey == "<missing>"

Node(id, titulo, nivel, subs) ==
    [id |-> id, titulo |-> titulo, nivel |-> nivel, palabras_clave |-> << >>,
     descripcion |-> "", subsecciones |-> subs]

Leaf(id, titulo, nivel) == Node(id, titulo, nivel, << >>)

\* structure['secciones'] of the outlines explored
Outlines ==
    { << >>,
      << Leaf("A", "flora", 1) >>,
      << Leaf("A", "flora", 1), Leaf("B", "fauna", 1) >>,
      << Node("A", "flora", 1, << Leaf("B", "aves", 2) >>), Leaf("C", "agua", 1) >>,
      << Node("A", "flora", 1, << Leaf("A", "aves", 2) >>) >>,
      << Leaf("A", "flora", 1), Leaf("A", "fauna", 1) >>,
      << Node("A", "flora", 1, << Leaf(NoKey, "aves", 2) >>) >>,
      << Leaf("A", NoKey, 1) >> }

\* Line 76: f"{path}/{section['titulo']}" if path else section['titulo']
current_path(section, path) ==
    IF path # "" THEN path \o "/" \o section.titulo ELSE section.titulo

\* Lines 76-94: the flat record of one section
section_data(section, path) ==
    [id |-> section.id, titulo |-> section.titulo, nivel |-> section.nivel,
     path |-> current_path(section, path),
     palabras_clave |-> section.palabras_clave,
     descripcion |-> section.descripcion,
     texto_representativo |->
        << section.titulo >>
        \o (IF section.descripcion # "" THEN << section.descripcion >> ELSE << >>)
        \o section.palabras_clave]

\* Lines 74-106: process_section over a list of sibling sections, in order;
\* each section is appended before its subsections are walked
RECURSIVE process_section(_, _)
process_section(nodes, path) ==
    IF nodes = << >> THEN << >>
    ELSE LET section == Head(nodes)
         IN << section_data(section, path) >>
            \o process_section(section.subsecciones, current_path(section, path))
            \o process_section(Tail(nodes), path)

\* mutant of Malformed: only the top-level records are looked at
Malformed_TopLevelOnly(nodes) ==
    \E k \in 1 .. Len(nodes) : nodes[k].id = NoKey \/ nodes[k].titulo = NoKey

\* some record of the tree lacks 'id' or 'titulo': lines 76/79 raise KeyError
RECURSIVE Malformed(_)
Malformed(nodes) ==
    \E k \in 1 .. Len(nodes) :
        \/ nodes[k].id = NoKey
        \/ nodes[k].titulo = NoKey
        \/ Malformed(nodes[k].subsecciones)

extract_sections_data(structure) == process_section(structure.secciones, "")

SectionIds(sections) == { sections[k].id : k \in 1 .. Len(sections) }

(***************************************************************************)
(* Calls of extract_sections_data on every outline of a few nodes          *)
(***************************************************************************)
MaxOutlineNodes == 3  \* outlines of 0..MaxOutlineNodes section records

\* the (id, titulo) pairs of the section records: ids that repeat, an empty
\* title, a record without 'id' and a record without 'titulo'
OutlineLabels ==
    { <<"A", "flora">>, <<"B", "aves">>, <<"A", "aves">>, <<"C", "">>,
      <<NoKey, "agua">>, <<"D", NoKey>> }

\* the lists of sibling section records with n records in all, subsections
\* included
RECURSIVE OutlinesOf(_)
OutlinesOf(n) ==
    IF n = 0 THEN { << >> }
    ELSE UNION { { << Node(l[1], l[2], 1, subs) >> \o rest :
                       l \in OutlineLabels,
                       subs \in OutlinesOf(k - 1),
                       rest \in OutlinesOf(n - k) } : k \in 1 .. n }

\* what the outline walk leaves alone
OutlineFrame ==
    UNCHANGED <<ck_vars, as_vars, mg_vars, tp_vars, cl_vars, pl_vars, vz_vars, mn_vars, gn_vars, tr_vars>>

\* Lines 72-108: the walk appends to the local list `sections` and returns it;
\* a record without 'id' or 'titulo' raises KeyError out of the walk, and the
\* local list is lost. Nothing in the walk writes to the outline.
ExtractSections ==
    /\ ol_pc = "call"
    /\ IF Malformed(ol_outline)
       THEN /\ ol_pc' = "raised"
            /\ ol_sections' = << >>
       ELSE /\ ol_pc' = "returned"
            /\ ol_sections' = process_section(ol_outline, "")
    /\ UNCHANGED <<ol_structure, ol_outline>>
    /\ OutlineFrame

InitOutline ==
    /\ TranscribeIdle
    /\ GenerateIdle
    /\ MainIdle
    /\ VectorizeIdle
    /\ ChunkIdle
    /\ AssignIdle
    /\ MergeIdle
    /\ TopicsIdle
    /\ CleanIdle
    /\ PipeIdle
    /\ ol_pc = "call"
    /\ \E n \in 0 .. MaxOutlineNodes : ol_structure \in OutlinesOf(n)
    /\ ol_outline = ol_structure
    /\ ol_sections = << >>

NextOutline == ExtractSections

SpecOutline == InitOutline /\ [][NextOutline]_vars

(***************************************************************************)
(* assign_segments_to_sections, vectorizer.py:181-220                      *)
(***************************************************************************)
MaxSegments == 2      \* segment lists of length 0..MaxSegments
MaxTopN == 2          \* top_n drawn from -1..MaxTopN

\* similarity values and thresholds, in units of 0.1
SimValues == {0, 1, 2}
Thresholds == {1, 2}
\* the arguments of the call at line 297-299: top_n=3, threshold=0.1
DefaultTopN == 3
DefaultThreshold == 1

SegTexts == << "s1", "s2", "s3", "s4" >>
SegmentList(m) == [k \in 1 .. m |-> [text |-> SegTexts[k]]]

Matrices(m, n) == [1 .. m -> [1 .. n -> SimValues]]

\* mutant of InitialAssignments: keys only for the top-level sections
InitialAssignments_TopLevelOnly(sections) ==
    [id \in { sections[k].id : k \in { n \in 1 .. Len(sections) : sections[n].nivel = 1 } }
        |-> << >>]

\* Line 195
InitialAssignments(sections) == [id \in SectionIds(sections) |-> << >>]

\* mutant of RelevantIndices: the threshold filter is dropped
RelevantIndices_NoThreshold(row, threshold) == DOMAIN row

\* Line 202: np.where(section_similarities >= threshold)[0]
RelevantIndices(row, threshold) == { j \in DOMAIN row : row[j] >= threshold }

\* mutant of Rankings: the relevant indices are not sorted by similarity
Rankings_AnyOrder(row, relevant) ==
    { p \in [1 .. Cardinality(relevant) -> relevant] :
        \A a, b \in DOMAIN p : a # b => p[a] # p[b] }

\* Line 205: relevant_indices[np.argsort(-section_similarities[relevant_indices])].
\* argsort's default sort is not stable: equal similarities come in any order.
Rankings(row, relevant) ==
    { p \in [1 .. Cardinality(relevant) -> relevant] :
        /\ \A a, b \in DOMAIN p : a # b => p[a] # p[b]
        /\ \A a, b \in DOMAIN p : a < b => row[p[a]] >= row[p[b]] }

\* mutant of TakeTopN: the slice is dropped
TakeTopN_All(seq, top_n) == seq

\* Line 205: the Python slice seq[:top_n], also for a negative top_n
TakeTopN(seq, top_n) ==
    SubSeq(seq, 1, IF top_n >= 0 THEN Min(top_n, Len(seq))
                   ELSE Max(Len(seq) + top_n, 0))

\* Lines 216-217: segment.copy() with the score added; `seg` records which
\* input segment the copy was made from
segment_with_score(segments, i, score) ==
    [seg |-> i, text |-> segments[i].text, similarity_score |-> score]

\* mutant of AppendEntries: no copy is made, the one record of the segment is
\* appended to every list and shows the score written last
RECURSIVE AppendEntries_Shared(_, _, _, _, _, _)
AppendEntries_Shared(assignments, sections, segments, i, row, top_indices) ==
    IF top_indices = << >> THEN assignments
    ELSE LET last == top_indices[Len(top_indices)]
             shared == segment_with_score(segments, i, row[last])
         IN [id \in DOMAIN assignments |->
                assignments[id] \o
                [k \in 1 .. Cardinality({x \in DOMAIN top_indices :
                                            sections[top_indices[x]].id = id})
                    |-> shared]]

\* Lines 212-218: the inner loop over top_indices
RECURSIVE AppendEntries(_, _, _, _, _, _)
AppendEntries(assignments, sections, segments, i, row, top_indices) ==
    IF top_indices = << >> THEN assignments
    ELSE LET idx == Head(top_indices)
             section_id == sections[idx].id
         IN AppendEntries(
                [assignments EXCEPT ![section_id] =
                    Append(@, segment_with_score(segments, i, row[idx]))],
                sections, segments, i, row, Tail(top_indices))

\* Lines 303-307: sorted(section_segments, key=similarity_score, reverse=True);
\* Python's sort is stable, also with reverse=True
RECURSIVE InsertByScore(_, _)
InsertByScore(sorted, e) ==
    IF sorted = << >> THEN << e >>
    ELSE IF Head(sorted).similarity_score >= e.similarity_score
         THEN << Head(sorted) >> \o InsertByScore(Tail(sorted), e)
         ELSE << e >> \o sorted

\* mutant of SortByScore: the post-pass sort is dropped
SortByScore_Unsorted(list) == list

RECURSIVE SortByScore(_)
SortByScore(list) ==
    IF list = << >> THEN << >>
    ELSE InsertByScore(SortByScore(SubSeq(list, 1, Len(list) - 1)), list[Len(list)])

\* what the assigner leaves alone
AssignFrame == UNCHANGED <<ck_vars, mg_vars, tp_vars, cl_vars, pl_vars, vz_vars, ol_vars, mn_vars, gn_vars, tr_vars>>

\* Line 195: the dictionary is created with every section id
AssignCall ==
    /\ as_pc = "call_assign"
    /\ as_assignments' = InitialAssignments(as_sections)
    /\ as_i' = 1
    /\ as_pc' = "assign"
    /\ UNCHANGED <<as_entry, as_segments_file, as_structure, as_vec_ok, as_segments,
                   as_sections, as_sim, as_top_n, as_threshold, as_out_file>>
    /\ AssignFrame

\* Lines 197-218: one iteration of the loop over the segments
AssignStep ==
    /\ as_pc = "assign"
    /\ as_i <= Len(as_segments)
    /\ LET section_similarities == as_sim[as_i]
           relevant_indices == RelevantIndices(section_similarities, as_threshold)
       IN \E ranking \in Rankings(section_similarities, relevant_indices) :
             as_assignments' =
                 AppendEntries(as_assignments, as_sections, as_segments, as_i,
                               section_similarities, TakeTopN(ranking, as_top_n))
    /\ as_i' = as_i + 1
    /\ UNCHANGED <<as_pc, as_entry, as_segments_file, as_structure, as_vec_ok,
                   as_segments, as_sections, as_sim, as_top_n, as_threshold,
                   as_out_file>>
    /\ AssignFrame

\* Line 220: return assignments (to the caller, or to line 297)
AssignReturn ==
    /\ as_pc = "assign"
    /\ as_i > Len(as_segments)
    /\ as_pc' = IF as_entry = "process" THEN "sort" ELSE "returned"
    /\ UNCHANGED <<as_entry, as_segments_file, as_structure, as_vec_ok, as_segments,
                   as_sections, as_sim, as_top_n, as_threshold, as_i, as_assignments,
                   as_out_file>>
    /\ AssignFrame

(***************************************************************************)
(* process_segments_and_sections, vectorizer.py:236-315                    *)
(***************************************************************************)
\* Lines 259-270: load the segments and the outline; any exception returns {}
ProcessLoad ==
    /\ as_pc = "call_process"
    /\ IF \/ ~as_segments_file.exists
          \/ ~as_structure.exists
          \/ Malformed(as_structure.secciones)
       THEN /\ as_pc' = "returned"
            /\ as_assignments' = << >>
            /\ UNCHANGED <<as_segments, as_sections>>
       ELSE /\ as_pc' = "vectorize"
            /\ as_segments' = as_segments_file.data
            /\ as_sections' = extract_sections_data(as_structure)
            /\ UNCHANGED as_assignments
    /\ UNCHANGED <<as_entry, as_segments_file, as_structure, as_vec_ok, as_sim,
                   as_top_n, as_threshold, as_i, as_out_file>>
    /\ AssignFrame

\* Lines 272-299: vectorize both text lists and compute the similarity matrix.
\* An empty list of texts makes either backend or cosine_similarity raise
\* ValueError; so do two TF-IDF fits with vocabularies of different sizes.
\* Nothing catches the exception.
ProcessVectorize ==
    /\ as_pc = "vectorize"
    /\ IF Len(as_segments) = 0 \/ Len(as_sections) = 0 \/ ~as_vec_ok
       THEN /\ as_pc' = "raised"
            /\ UNCHANGED <<as_top_n, as_threshold>>
       ELSE /\ as_pc' = "call_assign"
            /\ as_top_n' = DefaultTopN
            /\ as_threshold' = DefaultThreshold
    /\ UNCHANGED <<as_entry, as_segments_file, as_structure, as_vec_ok, as_segments,
                   as_sections, as_sim, as_i, as_assignments, as_out_file>>
    /\ AssignFrame

\* Lines 301-315: sort every list by score, save, return
ProcessSortSave ==
    /\ as_pc = "sort"
    /\ as_assignments' = [id \in DOMAIN as_assignments |-> SortByScore(as_assignments[id])]
    /\ as_out_file' = IF as_out_file.path
                      THEN [as_out_file EXCEPT !.written = TRUE,
                                               !.data = as_assignments']
                      ELSE as_out_file
    /\ as_pc' = "returned"
    /\ UNCHANGED <<as_entry, as_segments_file, as_structure, as_vec_ok, as_segments,
                   as_sections, as_sim, as_top_n, as_threshold, as_i>>
    /\ AssignFrame

\* a direct call of assign_segments_to_sections with arbitrary arguments
InitAssignCall ==
    /\ as_entry = "assign"
    /\ as_pc = "call_assign"
    /\ as_segments_file = [exists |-> FALSE, data |-> << >>]
    /\ as_structure = [exists |-> FALSE, secciones |-> << >>]
    /\ as_vec_ok = TRUE
    /\ \E m \in 0 .. MaxSegments : as_segments = SegmentList(m)
    /\ \E o \in Outlines :
          /\ ~Malformed(o)
          /\ as_sections = process_section(o, "")
    /\ as_sim \in Matrices(Len(as_segments), Len(as_sections))
    /\ as_top_n \in -1 .. MaxTopN
    /\ as_threshold \in Thresholds
    /\ as_out_file = [path |-> FALSE, written |-> FALSE, data |-> << >>]

\* a call of process_segments_and_sections on two files
InitProcessCall ==
    /\ as_entry = "process"
    /\ as_pc = "call_process"
    /\ \/ as_segments_file = [exists |-> FALSE, data |-> << >>]
       \/ \E m \in 0 .. MaxSegments :
             as_segments_file = [exists |-> TRUE, data |-> SegmentList(m)]
    /\ \/ as_structure = [exists |-> FALSE, secciones |-> << >>]
       \/ \E o \in Outlines : as_structure = [exists |-> TRUE, secciones |-> o]
    /\ as_vec_ok \in BOOLEAN
    /\ as_segments = << >>
    /\ as_sections = << >>
    \* the matrix the backend computes for these texts
    /\ IF as_segments_file.exists /\ as_structure.exists
          /\ ~Malformed(as_structure.secciones) /\ as_vec_ok
       THEN as_sim \in Matrices(Len(as_segments_file.data),
                                Len(extract_sections_data(as_structure)))
       ELSE as_sim = << >>
    /\ as_top_n = 0
    /\ as_threshold = 0
    /\ \E p \in BOOLEAN : as_out_file = [path |-> p, written |-> FALSE, data |-> << >>]

InitAssign ==
    /\ TranscribeIdle
    /\ GenerateIdle
    /\ MainIdle
    /\ OutlineIdle
    /\ VectorizeIdle
    /\ ChunkIdle
    /\ MergeIdle
    /\ TopicsIdle
    /\ CleanIdle
    /\ PipeIdle
    /\ as_i = 0
    /\ as_assignments = << >>
    /\ (InitAssignCall \/ InitProcessCall)

NextAssign ==
    \/ AssignCall \/ AssignStep \/ AssignReturn
    \/ ProcessLoad \/ ProcessVectorize \/ ProcessSortSave

SpecAssign == InitAssign /\ [][NextAssign]_vars

(***************************************************************************)
(* Claims about the Assignment Map                                         *)
(***************************************************************************)
\* the dictionary `assignments` exists
HasAssignments == as_pc \in {"assign", "sort", "returned"}

\* process_segments_and_sections had an outline and a list of segments to load
ProcessLoaded ==
    /\ as_segments_file.exists
    /\ as_structure.exists
    /\ ~Malformed(as_structure.secciones)

\* the outline whose sections the call works on
FlatOutline ==
    IF as_entry = "process" THEN extract_sections_data(as_structure) ELSE as_sections

\* the positions, over all lists of the map, of the entries made from segment i
EntriesOf(i) ==
    { pos \in (DOMAIN as_assignments) \X (1 .. Len(as_segments) * Len(as_sections)) :
        /\ pos[2] <= Len(as_assignments[pos[1]])
        /\ as_assignments[pos[1]][pos[2]].seg = i }

\* no section with this id can receive segment i
NothingRelevant(id) ==
    \A i \in 1 .. Len(as_segments) : \A j \in 1 .. Len(as_sections) :
        as_sections[j].id = id => as_sim[i][j] < as_threshold

(***************************************************************************)
(* C4: every section id of the flattened outline is a key of the map       *)
(* returned by assign_segments_to_sections and by                          *)
(* process_segments_and_sections, with an empty list when no segment is    *)
(* assigned to it, and every key is the id of a section of the outline.    *)
(***************************************************************************)
C4_AssignmentCompleteness ==
    (as_pc = "returned" /\ (as_entry = "process" => ProcessLoaded)) =>
        /\ DOMAIN as_assignments = SectionIds(FlatOutline)
        /\ \A id \in SectionIds(FlatOutline) :
              (NothingRelevant(id) \/ as_top_n = 0) => as_assignments[id] = << >>

\* both kinds of key occur in one returned map of a two-level outline
C4_Witness ==
    /\ as_pc = "returned"
    /\ as_entry = "process"
    /\ \E j \in 1 .. Len(as_sections) : as_sections[j].nivel = 2
    /\ \E id \in DOMAIN as_assignments : as_assignments[id] = << >>
    /\ \E id \in DOMAIN as_assignments : as_assignments[id] # << >>

(***************************************************************************)
(* C5: an entry for segment i is in section j's list only if               *)
(* similarity[i][j] >= threshold, and its similarity_score is              *)
(* similarity[i][j]; a segment whose whole row is below the threshold is   *)
(* in no list, and the loop goes on past it.                               *)
(***************************************************************************)
C5_ThresholdCorrectness ==
    HasAssignments =>
        /\ \A id \in DOMAIN as_assignments :
              \A k \in 1 .. Len(as_assignments[id]) :
                 LET e == as_assignments[id][k]
                 IN \E j \in 1 .. Len(as_sections) :
                       /\ as_sections[j].id = id
                       /\ as_sim[e.seg][j] >= as_threshold
                       /\ e.similarity_score = as_sim[e.seg][j]
        /\ \A i \in 1 .. Len(as_segments) :
              (\A j \in 1 .. Len(as_sections) : as_sim[i][j] < as_threshold)
                 => EntriesOf(i) = {}

\* the call returned after a first segment with nothing relevant and a second
\* segment that was assigned
C5_Witness ==
    /\ as_pc = "returned"
    /\ Len(as_segments) = 2
    /\ Len(as_sections) >= 2
    /\ \A j \in 1 .. Len(as_sections) : as_sim[1][j] < as_threshold
    /\ \E j \in 1 .. Len(as_sections) : as_sim[1][j] > 0
    /\ EntriesOf(2) # {}

(***************************************************************************)
(* C6: for top_n >= 0, the entries made from one segment, over all the     *)
(* section lists, number at most top_n.                                    *)
(***************************************************************************)
C6_CardinalityBound ==
    (HasAssignments /\ as_top_n >= 0) =>
        \A i \in 1 .. Len(as_segments) : Cardinality(EntriesOf(i)) <= as_top_n

\* a segment with more sections over the threshold than top_n was cut to top_n
C6_Witness ==
    /\ as_pc = "returned"
    /\ as_top_n >= 1
    /\ \E i \in 1 .. Len(as_segments) :
          /\ Cardinality(RelevantIndices(as_sim[i], as_threshold)) > as_top_n
          /\ Cardinality(EntriesOf(i)) = as_top_n

(***************************************************************************)
(* C7: in the map returned and saved by process_segments_and_sections the  *)
(* similarity_score values of every section's list are non-increasing.     *)
(***************************************************************************)
NonIncreasing(list) ==
    \A k \in 1 .. Len(list) - 1 :
        list[k].similarity_score >= list[k + 1].similarity_score

C7_ScoreOrdering ==
    (as_pc = "returned" /\ as_entry = "process") =>
        /\ \A id \in DOMAIN as_assignments : NonIncreasing(as_assignments[id])
        /\ as_out_file.written =>
              /\ as_out_file.data = as_assignments
              /\ \A id \in DOMAIN as_out_file.data : NonIncreasing(as_out_file.data[id])

\* a saved list in which the sort moved a later segment ahead of an earlier one
C7_Witness ==
    /\ as_pc = "returned"
    /\ as_entry = "process"
    /\ as_out_file.written
    /\ \E id \in DOMAIN as_assignments :
          /\ Len(as_assignments[id]) = 2
          /\ as_assignments[id][1].seg > as_assignments[id][2].seg
          /\ as_assignments[id][1].similarity_score > as_assignments[id][2].similarity_score

(***************************************************************************)
(* merge_related_segments, cleaner.py:156-196                              *)
(***************************************************************************)
MaxUtterances == 3    \* utterance lists of length 0..MaxUtterances

\* the default of max_gap_seconds
DefaultMaxGap == 30
MaxGaps == {0, DefaultMaxGap}

\* "HH:MM:SS" timestamps, as <<HH, MM, SS>>
Times == { <<0, 0, 0>>, <<0, 0, 10>>, <<0, 0, 40>>, <<0, 0, 41>>, <<0, 1, 11>> }

\* Lines 171-173
time_to_seconds(time_str) == time_str[1] * 3600 + time_str[2] * 60 + time_str[3]

\* Lines 52-58: an utterance record
Utterance(start, end, text) ==
    [timestamp |-> [start |-> start, end |-> end], text |-> text]

\* the text of the k-th utterance of a list: a word of k letters and a period
UttText(k) == Text(k + 1, {k}, {}, {})

\* the (start, end) pairs of an utterance: start_time <= end_time
TimeSpans ==
    { p \in Times \X Times : time_to_seconds(p[1]) <= time_to_seconds(p[2]) }

\* the list of utterances with the given time spans
UtteranceList(spans) ==
    [k \in 1 .. Len(spans) |-> Utterance(spans[k][1], spans[k][2], UttText(k))]

\* Lines 176, 191: segments[i].copy() is a shallow copy: the new record has its
\* own 'text' entry and shares the 'timestamp' dict of segments[i], named here
\* by the index `ts` of its owner. `members` records the utterances merged in.
ShallowCopy(segments, i) == [ts |-> i, text |-> segments[i].text, members |-> << i >>]

\* mutant of TimestampOf: the copy has a timestamp dict of its own, which the
\* write of line 185 to the shared dict does not reach
TimestampOf_Deep(segments, record) == mg_input[record.ts].timestamp

\* the timestamp a (copied) record shows
TimestampOf(segments, record) == segments[record.ts].timestamp

\* mutant of GapIsSmall: strict comparison
GapIsSmall_Strict(prev_end_time, current_start_time, max_gap_seconds) ==
    current_start_time - prev_end_time < max_gap_seconds

\* Line 183
GapIsSmall(prev_end_time, current_start_time, max_gap_seconds) ==
    current_start_time - prev_end_time <= max_gap_seconds

\* what the merger leaves alone
MergeFrame == UNCHANGED <<ck_vars, as_vars, tp_vars, cl_vars, pl_vars, vz_vars, ol_vars, mn_vars, gn_vars, tr_vars>>

\* Lines 167-176
MergeCall ==
    /\ mg_pc = "call"
    /\ IF mg_segments = << >>
       THEN /\ mg_pc' = "returned"
            /\ mg_current' = mg_current
       ELSE /\ mg_pc' = "loop"
            /\ mg_current' = ShallowCopy(mg_segments, 1)
    /\ mg_merged' = << >>
    /\ mg_i' = 2
    /\ UNCHANGED <<mg_input, mg_segments, mg_max_gap>>
    /\ MergeFrame

\* Lines 178-191: one iteration of the loop
MergeStep ==
    /\ mg_pc = "loop"
    /\ mg_i <= Len(mg_segments)
    /\ LET prev_end_time == time_to_seconds(TimestampOf(mg_segments, mg_current).end)
           current_start_time == time_to_seconds(mg_segments[mg_i].timestamp.start)
       IN IF GapIsSmall(prev_end_time, current_start_time, mg_max_gap)
          THEN \* line 185 writes through the shared timestamp dict
               /\ mg_segments' = [mg_segments EXCEPT ![mg_current.ts].timestamp.end =
                                      mg_segments[mg_i].timestamp.end]
               /\ mg_current' = [mg_current EXCEPT
                                      !.text = Concat(Concat(@, Space), mg_segments[mg_i].text),
                                      !.members = Append(@, mg_i)]
               /\ UNCHANGED mg_merged
          ELSE /\ mg_merged' = Append(mg_merged, mg_current)
               /\ mg_current' = ShallowCopy(mg_segments, mg_i)
               /\ UNCHANGED mg_segments
    /\ mg_i' = mg_i + 1
    /\ UNCHANGED <<mg_pc, mg_input, mg_max_gap>>
    /\ MergeFrame

\* Lines 193-196
MergeReturn ==
    /\ mg_pc = "loop"
    /\ mg_i > Len(mg_segments)
    /\ mg_merged' = Append(mg_merged, mg_current)
    /\ mg_pc' = "returned"
    /\ UNCHANGED <<mg_input, mg_segments, mg_max_gap, mg_i, mg_current>>
    /\ MergeFrame

InitMerge ==
    /\ TranscribeIdle
    /\ GenerateIdle
    /\ MainIdle
    /\ OutlineIdle
    /\ VectorizeIdle
    /\ ChunkIdle
    /\ AssignIdle
    /\ TopicsIdle
    /\ CleanIdle
    /\ PipeIdle
    /\ mg_pc = "call"
    /\ \E n \in 0 .. MaxUtterances :
          \E spans \in [1 .. n -> TimeSpans] : mg_input = UtteranceList(spans)
    /\ mg_segments = mg_input
    /\ mg_max_gap \in MaxGaps
    /\ mg_i = 0
    /\ mg_current = NoSegment
    /\ mg_merged = << >>

NextMerge == MergeCall \/ MergeStep \/ MergeReturn

SpecMerge == InitMerge /\ [][NextMerge]_vars

(***************************************************************************)
(* C8: adjacent input utterances u[i-1], u[i] end up in the same merged    *)
(* segment iff start(u[i]) - end(u[i-1]) <= max_gap_seconds (negative gaps *)
(* included), so a non-empty input gives 1 + (number of adjacent pairs     *)
(* with a larger gap) segments.                                            *)
(***************************************************************************)
\* the gap of the adjacent input pair (i-1, i), from the input as passed
InputGap(i) ==
    time_to_seconds(mg_input[i].timestamp.start)
      - time_to_seconds(mg_input[i - 1].timestamp.end)

InSameMergedSegment(a, b) ==
    \E k \in 1 .. Len(mg_merged) :
        /\ \E x \in 1 .. Len(mg_merged[k].members) : mg_merged[k].members[x] = a
        /\ \E x \in 1 .. Len(mg_merged[k].members) : mg_merged[k].members[x] = b

C8_MergeMonotonicity ==
    mg_pc = "returned" =>
        /\ \A i \in 2 .. Len(mg_input) :
              InSameMergedSegment(i - 1, i) <=> (InputGap(i) <= mg_max_gap)
        /\ Len(mg_input) >= 1 =>
              Len(mg_merged) =
                 1 + Cardinality({ i \in 2 .. Len(mg_input) : InputGap(i) > mg_max_gap })

\* a returned merge with a pair exactly at the threshold (merged) and a pair
\* beyond it (split)
C8_Witness ==
    /\ mg_pc = "returned"
    /\ mg_max_gap = DefaultMaxGap
    /\ Len(mg_input) = 3
    /\ InputGap(2) = DefaultMaxGap
    /\ InSameMergedSegment(1, 2)
    /\ InputGap(3) > DefaultMaxGap
    /\ ~InSameMergedSegment(2, 3)

(***************************************************************************)
(* segment_by_topics, segmenter.py:60-129                                  *)
(* Indices are 1-based here: index k stands for Python's k - 1.            *)
(***************************************************************************)
MaxTopicSegments == 4   \* segment lists of length 0..MaxTopicSegments

\* the defaults threshold=0.3 (in units of 0.1) and min_segment_length=50
DefaultTopicThreshold == 3
DefaultMinSegmentLength == 50

\* similarities of consecutive texts, in units of 0.1: below, at, above 0.3
TopicSimValues == {2, 3, 4}
\* lengths of the segment texts: empty, just too short, just long enough
TopicTextLens == {0, DefaultMinSegmentLength - 1, DefaultMinSegmentLength}

\* a text of the given length that ends with a period (when not empty)
Sentence(n) == Text(n, IF n > 0 THEN {n - 1} ELSE {}, {}, {})

\* the k-th segment of a list, at seconds 10k .. 10k+5
TopicInput(k, n) == Utterance(<<0, 0, 10 * k>>, <<0, 0, 10 * k + 5>>, Sentence(n))

\* Line 76: the indices of the texts that are long enough, in order
RECURSIVE ValidIndicesFrom(_, _, _)
ValidIndicesFrom(texts, min_segment_length, i) ==
    IF i > Len(texts) THEN << >>
    ELSE (IF texts[i].len >= min_segment_length THEN << i >> ELSE << >>)
         \o ValidIndicesFrom(texts, min_segment_length, i + 1)

valid_indices(texts, min_segment_length) == ValidIndicesFrom(texts, min_segment_length, 1)

\* mutant of TopicChangesFrom: a similarity equal to the threshold starts a topic
RECURSIVE TopicChangesFrom_AtThreshold(_, _, _)
TopicChangesFrom_AtThreshold(similarities, threshold, i) ==
    IF i > Len(similarities) THEN << >>
    ELSE (IF similarities[i] <= threshold THEN << i + 1 >> ELSE << >>)
         \o TopicChangesFrom_AtThreshold(similarities, threshold, i + 1)

\* Lines 100-103: the positions (in the valid list) where a topic starts
RECURSIVE TopicChangesFrom(_, _, _)
TopicChangesFrom(similarities, threshold, i) ==
    IF i > Len(similarities) THEN << >>
    ELSE (IF similarities[i] < threshold THEN << i + 1 >> ELSE << >>)
         \o TopicChangesFrom(similarities, threshold, i + 1)

topic_changes(similarities, threshold) ==
    << 1 >> \o TopicChangesFrom(similarities, threshold, 1)

\* Lines 108-114: the first and the last input index of topic i
start_idx(valid, changes, i) == valid[changes[i]]

end_idx(segments, valid, changes, i) ==
    IF i < Len(changes) THEN valid[changes[i + 1] - 1] ELSE Len(segments)

\* Lines 117-127: the combined segment of topic i
topic_segment(segments, valid, changes, i) ==
    LET first == start_idx(valid, changes, i)
        last == end_idx(segments, valid, changes, i)
    IN [timestamp |-> [start |-> segments[first].timestamp.start,
                       end |-> segments[last].timestamp.end],
        text |-> JoinSpace([k \in 1 .. last - first + 1 |-> segments[first + k - 1].text]),
        has_original_indices |-> TRUE,
        original_indices |-> [k \in 1 .. last - first + 1 |-> first + k - 1]]

\* Line 88: an input record, returned as it is: it has no 'original_indices'
fallback_segment(segments, i) ==
    [timestamp |-> segments[i].timestamp,
     text |-> segments[i].text,
     has_original_indices |-> FALSE,
     original_indices |-> << >>]

\* Lines 72-129
segment_by_topics(segments, threshold, min_segment_length, vec_ok, similarities) ==
    LET texts == [k \in 1 .. Len(segments) |-> segments[k].text]
        valid == valid_indices(texts, min_segment_length)
        changes == topic_changes(similarities, threshold)
    IN IF valid = << >> THEN << >>
       ELSE IF ~vec_ok THEN [k \in 1 .. Len(valid) |-> fallback_segment(segments, valid[k])]
       ELSE [i \in 1 .. Len(changes) |-> topic_segment(segments, valid, changes, i)]

\* what the topic segmenter leaves alone
TopicsFrame == UNCHANGED <<ck_vars, as_vars, mg_vars, cl_vars, pl_vars, vz_vars, ol_vars, mn_vars, gn_vars, tr_vars>>

TopicsCall ==
    /\ tp_pc = "call"
    /\ tp_result' = segment_by_topics(tp_segments, tp_threshold, tp_min_length,
                                      tp_vec_ok, tp_similarities)
    /\ tp_pc' = "returned"
    /\ UNCHANGED <<tp_segments, tp_threshold, tp_min_length, tp_vec_ok, tp_similarities>>
    /\ TopicsFrame

\* the similarities the vectorizer yields for the valid texts of `segments`
SimilaritiesFor(segments, min_segment_length, vec_ok) ==
    LET valid == valid_indices([k \in 1 .. Len(segments) |-> segments[k].text],
                               min_segment_length)
    IN IF vec_ok /\ Len(valid) >= 1
       THEN [1 .. Len(valid) - 1 -> TopicSimValues]
       ELSE { << >> }

InitTopics ==
    /\ TranscribeIdle
    /\ GenerateIdle
    /\ MainIdle
    /\ OutlineIdle
    /\ VectorizeIdle
    /\ ChunkIdle
    /\ AssignIdle
    /\ MergeIdle
    /\ CleanIdle
    /\ PipeIdle
    /\ tp_pc = "call"
    /\ \E n \in 0 .. MaxTopicSegments :
          \E lens \in [1 .. n -> TopicTextLens] :
             tp_segments = [k \in 1 .. n |-> TopicInput(k, lens[k])]
    /\ tp_threshold \in {DefaultTopicThreshold, DefaultTopicThreshold + 1}
    /\ tp_min_length = DefaultMinSegmentLength
    /\ tp_vec_ok \in BOOLEAN
    /\ tp_similarities \in SimilaritiesFor(tp_segments, tp_min_length, tp_vec_ok)
    /\ tp_result = << >>

NextTopics == TopicsCall

SpecTopics == InitTopics /\ [][NextTopics]_vars

(***************************************************************************)
(* C3: segment_by_topics loses no content: every input segment index,      *)
(* short segments included wherever they sit, is in the original_indices   *)
(* of exactly one output topic segment, and its text is part of that       *)
(* topic's text.                                                           *)
(***************************************************************************)
\* topic t lists input index i at position x of its original_indices
ListedAt(t, x, i) ==
    /\ tp_result[t].has_original_indices
    /\ x \in 1 .. Len(tp_result[t].original_indices)
    /\ tp_result[t].original_indices[x] = i

\* the text of input segment i stands in the text of topic t, at offset `at`
TextPartOf(i, t, at) ==
    /\ at + tp_segments[i].text.len <= tp_result[t].text.len
    /\ Slice(tp_result[t].text, at, at + tp_segments[i].text.len) = tp_segments[i].text

C3_NoContentLost ==
    tp_pc = "returned" =>
        \A i \in 1 .. Len(tp_segments) :
           /\ Cardinality({ t \in 1 .. Len(tp_result) :
                              \E x \in 1 .. MaxTopicSegments + 1 : ListedAt(t, x, i) }) = 1
           /\ \E t \in 1 .. Len(tp_result) :
                 /\ \E x \in 1 .. MaxTopicSegments + 1 : ListedAt(t, x, i)
                 /\ \E at \in 0 .. tp_result[t].text.len : TextPartOf(i, t, at)

(***************************************************************************)
(* Text cleaning, cleaner.py:35-153 and 223-232. Texts are strings here,   *)
(* so that the regular expressions are modelled by what they match.        *)
(***************************************************************************)
MaxRawLen == 6        \* captured texts of length 0..MaxRawLen

\* the characters captured texts are made of: letters in both cases, the
\* space, and the two characters the patterns of line 103 begin and end with
CleanChars == {"E", "h", " ", "\\", "b"}

\* the characters speaker labels, sentences and ellipses are made of
LabelChars == {"a", ":", ".", " "}

\* the example utterance of the cleaning scenario
ExampleUtterance == "Hola eh esto es una prueba"

\* a text that starts with two speaker labels, and one with a run of dots
TwoLabels == "Ana: Luis: hola"
Ellipsis == "Hola... bien"

Char(t, i) == SubSeq(t, i, i)

\* \s, and what str.strip() strips
Whitespace == {" ", "\t", "\n", "\r", "\f"}

\* [.,;:!?]
Punctuation == {".", ",", ";", ":", "!", "?"}

UpperLetters == "ABCDEFGHIJKLMNOPQRSTUVWXYZ"
LowerLetters == "abcdefghijklmnopqrstuvwxyz"

\* [A-Za-z...] of line 149 (its accented letters are in no text used here)
LabelLetters ==
    {Char(UpperLetters, k) : k \in 1 .. 26} \cup {Char(LowerLetters, k) : k \in 1 .. 26}

\* \w, for the word boundaries of whole words
WordChars ==
    LabelLetters \cup {"0", "1", "2", "3", "4", "5", "6", "7", "8", "9", "_"}

\* re.IGNORECASE compares characters by their lower case
Lower(c) ==
    IF \E k \in 1 .. 26 : Char(UpperLetters, k) = c
    THEN Char(LowerLetters, CHOOSE k \in 1 .. 26 : Char(UpperLetters, k) = c)
    ELSE c

SetMin(S) == CHOOSE x \in S : \A y \in S : x <= y

\* the end (exclusive) of the longest run of characters of S that starts at i
RunEnd(t, i, S) ==
    CHOOSE e \in i .. Len(t) + 1 :
        /\ \A k \in i .. e - 1 : Char(t, k) \in S
        /\ (e = Len(t) + 1 \/ Char(t, e) \notin S)

\* str.strip()
strip(t) ==
    LET kept == {k \in 1 .. Len(t) : Char(t, k) \notin Whitespace}
    IN IF kept = {} THEN "" ELSE SubSeq(t, SetMin(kept), SetMax(kept))

\* Lines 74-99: the table `corrections`, in the order of the dictionary
corrections == <<
    [error |-> "comfama",     correction |-> "Comfama"],
    [error |-> "san luis",    correction |-> "San Luis"],
    [error |-> "bosquecinos", correction |-> "Bosquecinos"],
    [error |-> "cubas",       correction |-> "Cuba"],
    [error |-> "pantagoras",  correction |-> "Pantagoras"],
    [error |-> "arnulfo",     correction |-> "Arnulfo"],
    [error |-> "ndvi",        correction |-> "NDVI"],
    [error |-> ",,",          correction |-> ","],
    [error |-> "..",          correction |-> "."],
    [error |-> " ,",          correction |-> ","],
    [error |-> " .",          correction |-> "."],
    [error |-> "  ",          correction |-> " "],
    [error |-> "eh",          correction |-> ""],
    [error |-> "este",        correction |-> ""],
    [error |-> "pues",        correction |-> ""],
    [error |-> "cierto",      correction |-> ""],
    [error |-> "digamos",     correction |-> ""] >>

\* the entries of the table whose correction is the empty string
FillerWords == {"eh", "este", "pues", "cierto", "digamos"}

\* `error` is pasted into the pattern unescaped: its '.' matches any character
\* but a newline, every other character of the table matches itself; the flag
\* re.IGNORECASE is set
ErrorMatchesAt(error, t, i) ==
    \A k \in 1 .. Len(error) :
        IF Char(error, k) = "."
        THEN Char(t, i + k - 1) # "\n"
        ELSE Lower(Char(error, k)) = Lower(Char(t, i + k - 1))

\* Line 103: the pattern r'\\b' + error + r'\\b'. In a raw string '\\b' is two
\* backslashes and a b, which the regular expression reads as one literal
\* backslash followed by the letter b.
PatternMatchesAt(error, t, i) ==
    /\ i + Len(error) + 3 <= Len(t)
    /\ Char(t, i) = "\\"
    /\ Lower(Char(t, i + 1)) = "b"
    /\ ErrorMatchesAt(error, t, i + 2)
    /\ Char(t, i + Len(error) + 2) = "\\"
    /\ Lower(Char(t, i + Len(error) + 3)) = "b"

\* Line 103: re.sub replaces the leftmost matches that do not overlap
RECURSIVE sub_correction(_, _, _, _)
sub_correction(error, correction, t, i) ==
    LET hits == {j \in i .. Len(t) : PatternMatchesAt(error, t, j)}
    IN IF hits = {} THEN SubSeq(t, i, Len(t))
       ELSE LET j == SetMin(hits)
            IN SubSeq(t, i, j - 1) \o correction
                   \o sub_correction(error, correction, t, j + Len(error) + 4)

\* Lines 101-103: the loop over the table, from entry k on
RECURSIVE ApplyCorrections(_, _)
ApplyCorrections(text, k) ==
    IF k > Len(corrections) THEN text
    ELSE ApplyCorrections(
             sub_correction(corrections[k].error, corrections[k].correction, text, 1),
             k + 1)

\* Lines 63-105
correct_common_transcription_errors(text) == ApplyCorrections(text, 1)

\* Line 119: re.sub(r'\s+([.,;:!?])', r'\1', text)
SpaceBeforeAt(t, j, S) ==
    /\ Char(t, j) \in Whitespace
    /\ RunEnd(t, j, Whitespace) <= Len(t)
    /\ Char(t, RunEnd(t, j, Whitespace)) \in S

RECURSIVE sub_space_before(_, _, _)
sub_space_before(t, i, S) ==
    LET hits == {j \in i .. Len(t) : SpaceBeforeAt(t, j, S)}
    IN IF hits = {} THEN SubSeq(t, i, Len(t))
       ELSE LET j == SetMin(hits)
                e == RunEnd(t, j, Whitespace)
            IN SubSeq(t, i, j - 1) \o Char(t, e) \o sub_space_before(t, e + 1, S)

\* Line 122: re.sub(r'([.,;:!?])([^\s])', r'\1 \2', text)
PunctuationGluedAt(t, j) ==
    /\ Char(t, j) \in Punctuation
    /\ j + 1 <= Len(t)
    /\ Char(t, j + 1) \notin Whitespace

RECURSIVE sub_space_after_punctuation(_, _)
sub_space_after_punctuation(t, i) ==
    LET hits == {j \in i .. Len(t) : PunctuationGluedAt(t, j)}
    IN IF hits = {} THEN SubSeq(t, i, Len(t))
       ELSE LET j == SetMin(hits)
            IN SubSeq(t, i, j) \o " " \o Char(t, j + 1)
                   \o sub_space_after_punctuation(t, j + 2)

\* Lines 125 and 132: re.sub(r'\.{2,}', '...', text), re.sub(r'\s{2,}', ' ', text):
\* every longest run of two or more characters of S becomes `replacement`
LongRunAt(t, j, S) ==
    /\ Char(t, j) \in S
    /\ RunEnd(t, j, S) >= j + 2

RECURSIVE sub_long_runs(_, _, _, _)
sub_long_runs(t, i, S, replacement) ==
    LET hits == {j \in i .. Len(t) : LongRunAt(t, j, S)}
    IN IF hits = {} THEN SubSeq(t, i, Len(t))
       ELSE LET j == SetMin(hits)
            IN SubSeq(t, i, j - 1) \o replacement
                   \o sub_long_runs(t, RunEnd(t, j, S), S, replacement)

\* Line 128: re.sub(r'\(\s+', '(', text)
SpaceAfterParenAt(t, j) ==
    /\ Char(t, j) = "("
    /\ j + 1 <= Len(t)
    /\ Char(t, j + 1) \in Whitespace

RECURSIVE sub_space_after_paren(_, _)
sub_space_after_paren(t, i) ==
    LET hits == {j \in i .. Len(t) : SpaceAfterParenAt(t, j)}
    IN IF hits = {} THEN SubSeq(t, i, Len(t))
       ELSE LET j == SetMin(hits)
            IN SubSeq(t, i, j)
                   \o sub_space_after_paren(t, RunEnd(t, j + 1, Whitespace))

\* Lines 108-134
normalize_punctuation(text) ==
    LET t1 == sub_space_before(text, 1, Punctuation)      \* line 119
        t2 == sub_space_after_punctuation(t1, 1)          \* line 122
        t3 == sub_long_runs(t2, 1, {"."}, "...")          \* line 125
        t4 == sub_space_after_paren(t3, 1)                \* line 128
        t5 == sub_space_before(t4, 1, {")"})              \* line 129
        t6 == sub_long_runs(t5, 1, Whitespace, " ")       \* line 132
    IN strip(t6)

\* Line 149: ([A-Za-z...]+ ?[A-Za-z...]*:)\s+ matched at i: the end (exclusive)
\* of the match, 0 when there is none
LabelEnd(t, i) ==
    LET j == RunEnd(t, i, LabelLetters)
        k1 == IF j <= Len(t) /\ Char(t, j) = " " THEN j + 1 ELSE j
        k == RunEnd(t, k1, LabelLetters)
        colon == IF k <= Len(t) /\ Char(t, k) = ":" THEN k
                 ELSE IF j <= Len(t) /\ Char(t, j) = ":" THEN j
                 ELSE 0
    IN IF i > Len(t) \/ j = i \/ colon = 0 THEN 0
       ELSE IF RunEnd(t, colon + 1, Whitespace) = colon + 1 THEN 0
       ELSE RunEnd(t, colon + 1, Whitespace)

\* Line 149: the group (^|\. ) matches the empty string at the start of the
\* text (no re.MULTILINE), or a period and a space
LabelAt(t, j) ==
    \/ j = 1 /\ LabelEnd(t, 1) > 0
    \/ /\ j + 1 <= Len(t)
       /\ Char(t, j) = "." /\ Char(t, j + 1) = " "
       /\ LabelEnd(t, j + 2) > 0

\* Lines 149-151: re.sub(pattern, r'\1', text)
RECURSIVE sub_speaker_labels(_, _)
sub_speaker_labels(t, i) ==
    LET hits == {j \in i .. Len(t) : LabelAt(t, j)}
    IN IF hits = {} THEN SubSeq(t, i, Len(t))
       ELSE LET j == SetMin(hits)
            IN IF j = 1 /\ LabelEnd(t, 1) > 0
               THEN sub_speaker_labels(t, LabelEnd(t, 1))
               ELSE SubSeq(t, i, j - 1) \o ". "
                        \o sub_speaker_labels(t, LabelEnd(t, j + 2))

\* Lines 137-153
clean_speaker_indicators(text) == sub_speaker_labels(text, 1)

\* what the cleaning of one utterance leaves alone
CleanFrame == UNCHANGED <<ck_vars, as_vars, mg_vars, tp_vars, pl_vars, vz_vars, ol_vars, mn_vars, gn_vars, tr_vars>>

\* Line 56: 'text': text.strip()
CleanExtract ==
    /\ cl_pc = "extract"
    /\ cl_text' = strip(cl_captured)
    /\ cl_pc' = "correct"
    /\ cl_pass' = 1
    /\ UNCHANGED <<cl_captured, cl_first>>
    /\ CleanFrame

\* Line 226
CleanCorrect ==
    /\ cl_pc = "correct"
    /\ cl_text' = correct_common_transcription_errors(cl_text)
    /\ cl_pc' = "normalize"
    /\ UNCHANGED <<cl_captured, cl_pass, cl_first>>
    /\ CleanFrame

\* Line 229
CleanNormalize ==
    /\ cl_pc = "normalize"
    /\ cl_text' = normalize_punctuation(cl_text)
    /\ cl_pc' = "speaker"
    /\ UNCHANGED <<cl_captured, cl_pass, cl_first>>
    /\ CleanFrame

\* Line 232
CleanSpeaker ==
    /\ cl_pc = "speaker"
    /\ cl_text' = clean_speaker_indicators(cl_text)
    /\ cl_pc' = "cleaned"
    /\ UNCHANGED <<cl_captured, cl_pass, cl_first>>
    /\ CleanFrame

\* The cleaning sequence of lines 224-232 applied to its own output
CleanAgain ==
    /\ cl_pc = "cleaned"
    /\ cl_pass = 1
    /\ cl_first' = cl_text
    /\ cl_pass' = 2
    /\ cl_pc' = "correct"
    /\ UNCHANGED <<cl_captured, cl_text>>
    /\ CleanFrame

\* the strings of n characters of `chars`
RECURSIVE StringsOver(_, _)
StringsOver(chars, n) ==
    IF n = 0 THEN {""}
    ELSE {s \o c : s \in StringsOver(chars, n - 1), c \in chars}

InitClean ==
    /\ TranscribeIdle
    /\ GenerateIdle
    /\ MainIdle
    /\ OutlineIdle
    /\ VectorizeIdle
    /\ ChunkIdle
    /\ AssignIdle
    /\ MergeIdle
    /\ TopicsIdle
    /\ PipeIdle
    /\ cl_pc = "extract"
    /\ \/ \E n \in 0 .. MaxRawLen : cl_captured \in StringsOver(CleanChars, n)
       \/ \E n \in 0 .. MaxRawLen : cl_captured \in StringsOver(LabelChars, n)
       \/ cl_captured \in {ExampleUtterance, TwoLabels, Ellipsis}
    /\ cl_text = ""
    /\ cl_pass = 0
    /\ cl_first = ""

NextClean ==
    CleanExtract \/ CleanCorrect \/ CleanNormalize \/ CleanSpeaker \/ CleanAgain

SpecClean == InitClean /\ [][NextClean]_vars

\* `word` (in lower case) stands in t at i as a whole word, in any letter case
WholeWordAt(word, t, i) ==
    /\ i + Len(word) - 1 <= Len(t)
    /\ \A k \in 1 .. Len(word) : Lower(Char(t, i + k - 1)) = Char(word, k)
    /\ (i = 1 \/ Char(t, i - 1) \notin WordChars)
    /\ (i + Len(word) > Len(t) \/ Char(t, i + Len(word)) \notin WordChars)

HasFillerWord(t) ==
    \E word \in FillerWords : \E i \in 1 .. Len(t) : WholeWordAt(word, t, i)

(***************************************************************************)
(* C10: after correct_common_transcription_errors, and after the full      *)
(* cleaning of an utterance, no filler word of the correction table (eh,   *)
(* este, pues, cierto, digamos) remains in the text as a whole word, in    *)
(* any letter case.                                                        *)
(***************************************************************************)
C10_NoFillerWordRemains ==
    /\ cl_pc = "normalize" => ~HasFillerWord(cl_text)
    /\ cl_pc = "cleaned" => ~HasFillerWord(cl_text)

(***************************************************************************)
(* main, stages 1 and 2 (main.py:129-198), with clean_transcription        *)
(* (cleaner.py:199-244) and process_transcription_for_analysis             *)
(* (segmenter.py:175-229). The functions called run as the actions above.  *)
(***************************************************************************)
MaxPipeUtterances == 2    \* transcripts of 0..MaxPipeUtterances utterances

\* s repeated n times
RECURSIVE Repeat(_, _)
Repeat(s, n) == IF n = 0 THEN "" ELSE s \o Repeat(s, n - 1)

\* captured utterance texts: too short for a topic, long enough for a topic,
\* and longer than max_chunk_size
MediumUtterance == " Ana: la calidad del agua en la cuenca alta es buena , segun el NDVI."
LongUtterance == " " \o Repeat("calidad del agua ", 60)
PipeTexts == {" " \o ExampleUtterance, MediumUtterance, LongUtterance}

\* an utterance at 0-10 s and one at 41-71 s: 31 s after the first, before it
\* when they come in the other order
PipeSpans == { << <<0, 0, 0>>, <<0, 0, 10>> >>, << <<0, 0, 41>>, <<0, 1, 11>> >> }

\* the transcripts: the utterance lines "[start - end]: text" of the file
PipeUtterance(span, captured) == [start |-> span[1], end |-> span[2], captured |-> captured]

\* the text as the stages after the cleaning see it
AbstractText(s) ==
    Text(Len(s),
         {k - 1 : k \in {j \in 1 .. Len(s) : Char(s, j) = "."}},
         {k - 1 : k \in {j \in 1 .. Len(s) : Char(s, j) = "\n"}},
         {k - 1 : k \in {j \in 1 .. Len(s) : Char(s, j) = " "}})

\* cleaner.py:52-58 and 224-232: one utterance, extracted and cleaned
CleanedUtterance(u) ==
    Utterance(u.start, u.end,
              AbstractText(clean_speaker_indicators(normalize_punctuation(
                  correct_common_transcription_errors(strip(u.captured))))))

\* cleaner.py:235, 239-244: the list merge_related_segments returned, as it is
\* written and returned
MergedSegments ==
    [k \in 1 .. Len(mg_merged) |->
        [timestamp |-> TimestampOf(mg_segments, mg_merged[k]),
         text |-> mg_merged[k].text]]

\* cleaner.py:211-217: the transcript cannot be loaded, the result is []
PipeCleanLoadFail ==
    /\ pl_pc = "clean_call"
    /\ ~pl_transcription.exists
    /\ pl_clean_segments' = << >>
    /\ pl_pc' = "clean_returned"
    /\ UNCHANGED <<pl_caller, pl_transcription, pl_structure, pl_cleaned_file, pl_k,
                   pl_analysis_segments, pl_segments>>
    /\ UNCHANGED <<ck_vars, as_vars, mg_vars, tp_vars, cl_vars, vz_vars, ol_vars, mn_vars, gn_vars, tr_vars>>

\* cleaner.py:211-235: load, extract, clean every text, call merge_related_segments
PipeCleanCall ==
    /\ pl_pc = "clean_call"
    /\ pl_transcription.exists
    /\ mg_input' = [k \in 1 .. Len(pl_transcription.data) |->
                       CleanedUtterance(pl_transcription.data[k])]
    /\ mg_segments' = mg_input'
    /\ mg_max_gap' = DefaultMaxGap
    /\ mg_pc' = "call"
    /\ mg_i' = 0
    /\ mg_current' = NoSegment
    /\ mg_merged' = << >>
    /\ pl_pc' = "merging"
    /\ UNCHANGED <<pl_caller, pl_transcription, pl_structure, pl_cleaned_file,
                   pl_clean_segments, pl_k, pl_analysis_segments, pl_segments>>
    /\ UNCHANGED <<ck_vars, as_vars, tp_vars, cl_vars, vz_vars, ol_vars, mn_vars, gn_vars, tr_vars>>

\* cleaner.py:235-244: save the merged list at output_path and return it
PipeCleanReturn ==
    /\ pl_pc = "merging"
    /\ mg_pc = "returned"
    /\ pl_cleaned_file' = [exists |-> TRUE, data |-> MergedSegments]
    /\ pl_clean_segments' = MergedSegments
    /\ pl_pc' = "clean_returned"
    /\ UNCHANGED <<pl_caller, pl_transcription, pl_structure, pl_k,
                   pl_analysis_segments, pl_segments>>
    /\ UNCHANGED <<ck_vars, as_vars, mg_vars, tp_vars, cl_vars, vz_vars, ol_vars, mn_vars, gn_vars, tr_vars>>

\* main.py:142-148, segmenter.py:191: main drops the list it got and calls
\* process_transcription_for_analysis, which cleans the transcript again
PipeSegmentCall ==
    /\ pl_pc = "clean_returned"
    /\ pl_caller = "main"
    /\ pl_caller' = "analysis"
    /\ pl_pc' = "clean_call"
    /\ UNCHANGED <<pl_transcription, pl_structure, pl_cleaned_file, pl_clean_segments,
                   pl_k, pl_analysis_segments, pl_segments>>
    /\ UNCHANGED <<ck_vars, as_vars, mg_vars, tp_vars, cl_vars, vz_vars, ol_vars, mn_vars, gn_vars, tr_vars>>

\* segmenter.py:192-194: no clean segments: return [] before anything is saved
PipeNoCleanSegments ==
    /\ pl_pc = "clean_returned"
    /\ pl_caller = "analysis"
    /\ pl_clean_segments = << >>
    /\ pl_segments' = << >>
    /\ pl_pc' = "stage2"
    /\ UNCHANGED <<pl_caller, pl_transcription, pl_structure, pl_cleaned_file,
                   pl_clean_segments, pl_k, pl_analysis_segments>>
    /\ UNCHANGED <<ck_vars, as_vars, mg_vars, tp_vars, cl_vars, vz_vars, ol_vars, mn_vars, gn_vars, tr_vars>>

\* segmenter.py:197: segment_by_topics(clean_segments), with its defaults
PipeTopicsCall ==
    /\ pl_pc = "clean_returned"
    /\ pl_caller = "analysis"
    /\ pl_clean_segments # << >>
    /\ tp_pc' = "call"
    /\ tp_segments' = pl_clean_segments
    /\ tp_threshold' = DefaultTopicThreshold
    /\ tp_min_length' = DefaultMinSegmentLength
    /\ tp_vec_ok' \in BOOLEAN
    /\ tp_similarities' \in SimilaritiesFor(tp_segments', tp_min_length', tp_vec_ok')
    /\ tp_result' = << >>
    /\ pl_pc' = "topics"
    /\ UNCHANGED <<pl_caller, pl_transcription, pl_structure, pl_cleaned_file,
                   pl_clean_segments, pl_k, pl_analysis_segments, pl_segments>>
    /\ UNCHANGED <<ck_vars, as_vars, mg_vars, cl_vars, vz_vars, ol_vars, mn_vars, gn_vars, tr_vars>>

\* segmenter.py:197-202: the topic list is back, the loop over it begins
PipeTopicsReturn ==
    /\ pl_pc = "topics"
    /\ tp_pc = "returned"
    /\ pl_analysis_segments' = << >>
    /\ pl_k' = 1
    /\ pl_pc' = "chunking"
    /\ UNCHANGED <<pl_caller, pl_transcription, pl_structure, pl_cleaned_file,
                   pl_clean_segments, pl_segments>>
    /\ UNCHANGED <<ck_vars, as_vars, mg_vars, tp_vars, cl_vars, vz_vars, ol_vars, mn_vars, gn_vars, tr_vars>>

\* segmenter.py:204: create_text_chunks(segment['text']), with its defaults
PipeChunkCall ==
    /\ pl_pc = "chunking"
    /\ pl_k <= Len(tp_result)
    /\ ck_pc' = "call"
    /\ ck_text' = tp_result[pl_k].text
    /\ ck_max' = DefaultMaxChunkSize
    /\ ck_overlap' = DefaultOverlap
    /\ ck_start' = 0
    /\ ck_chunks' = << >>
    /\ pl_pc' = "chunk_call"
    /\ UNCHANGED <<pl_caller, pl_transcription, pl_structure, pl_cleaned_file,
                   pl_clean_segments, pl_k, pl_analysis_segments, pl_segments>>
    /\ UNCHANGED <<as_vars, mg_vars, tp_vars, cl_vars, vz_vars, ol_vars, mn_vars, gn_vars, tr_vars>>

\* segmenter.py:211-219: the record of chunk i (0-based) of a topic segment
chunk_segment(segment, chunks, i) ==
    [timestamp |-> segment.timestamp,
     text |-> Slice(ck_text, chunks[i + 1].start, chunks[i + 1].end),
     has_original_indices |-> TRUE,
     original_indices |-> segment.original_indices,
     chunk_index |-> i,
     total_chunks |-> Len(chunks)]

\* segmenter.py:207-219: one chunk keeps the topic segment as it is; several
\* chunks make one record each, which reads segment['original_indices']
\* (KeyError for a record of the fallback of segment_by_topics; main.py:154-156
\* catches it and returns 1)
PipeChunkCollect ==
    /\ pl_pc = "chunk_call"
    /\ ck_pc = "returned"
    /\ LET segment == tp_result[pl_k]
       IN IF Len(ck_chunks) = 1
          THEN /\ pl_analysis_segments' = Append(pl_analysis_segments, segment)
               /\ pl_pc' = "chunking"
          ELSE IF ~segment.has_original_indices
          THEN /\ pl_pc' = "failed"
               /\ UNCHANGED pl_analysis_segments
          ELSE /\ pl_analysis_segments' =
                     pl_analysis_segments
                     \o [i \in 1 .. Len(ck_chunks) |-> chunk_segment(segment, ck_chunks, i - 1)]
               /\ pl_pc' = "chunking"
    /\ pl_k' = pl_k + 1
    /\ UNCHANGED <<pl_caller, pl_transcription, pl_structure, pl_cleaned_file,
                   pl_clean_segments, pl_segments>>
    /\ UNCHANGED <<ck_vars, as_vars, mg_vars, tp_vars, cl_vars, vz_vars, ol_vars, mn_vars, gn_vars, tr_vars>>

\* segmenter.py:204, main.py:154-156: create_text_chunks raised; main logs the
\* error and returns 1
PipeChunkFail ==
    /\ pl_pc = "chunk_call"
    /\ ck_pc = "memory_error"
    /\ pl_pc' = "failed"
    /\ UNCHANGED <<pl_caller, pl_transcription, pl_structure, pl_cleaned_file,
                   pl_clean_segments, pl_k, pl_analysis_segments, pl_segments>>
    /\ UNCHANGED <<ck_vars, as_vars, mg_vars, tp_vars, cl_vars, vz_vars, ol_vars, mn_vars, gn_vars, tr_vars>>

\* segmenter.py:221-229: save the list at output_path (segments_file) and return it
PipeWriteSegments ==
    /\ pl_pc = "chunking"
    /\ pl_k > Len(tp_result)
    /\ as_segments_file' = [exists |-> TRUE, data |-> pl_analysis_segments]
    /\ pl_segments' = pl_analysis_segments
    /\ pl_pc' = "stage2"
    /\ UNCHANGED <<pl_caller, pl_transcription, pl_structure, pl_cleaned_file,
                   pl_clean_segments, pl_k, pl_analysis_segments>>
    /\ UNCHANGED <<as_pc, as_entry, as_structure, as_vec_ok, as_segments, as_sections,
                   as_sim, as_top_n, as_threshold, as_i, as_assignments, as_out_file>>
    /\ UNCHANGED <<ck_vars, mg_vars, tp_vars, cl_vars, vz_vars, ol_vars, mn_vars, gn_vars, tr_vars>>

\* main.py:171-180: process_segments_and_sections(segments_file, args.structure,
\* assignments_file); the backend's vectors and similarities are its own
PipeAnalysisCall ==
    /\ pl_pc = "stage2"
    /\ as_entry' = "process"
    /\ as_pc' = "call_process"
    /\ as_structure' = pl_structure
    /\ as_vec_ok' \in BOOLEAN
    /\ as_segments' = << >>
    /\ as_sections' = << >>
    /\ IF as_segments_file.exists /\ pl_structure.exists
          /\ ~Malformed(pl_structure.secciones) /\ as_vec_ok'
       THEN as_sim' \in Matrices(Len(as_segments_file.data),
                                 Len(extract_sections_data(pl_structure)))
       ELSE as_sim' = << >>
    /\ as_top_n' = 0
    /\ as_threshold' = 0
    /\ as_i' = 0
    /\ as_assignments' = << >>
    /\ as_out_file' = [path |-> TRUE, written |-> FALSE, data |-> << >>]
    /\ pl_pc' = "analysis"
    /\ UNCHANGED as_segments_file
    /\ UNCHANGED <<pl_caller, pl_transcription, pl_structure, pl_cleaned_file,
                   pl_clean_segments, pl_k, pl_analysis_segments, pl_segments>>
    /\ UNCHANGED <<ck_vars, mg_vars, tp_vars, cl_vars, vz_vars, ol_vars, mn_vars, gn_vars, tr_vars>>

\* main.py:182-194: the map is back; its lists are counted
PipeAnalysisReturn ==
    /\ pl_pc = "analysis"
    /\ as_pc = "returned"
    /\ pl_pc' = "done"
    /\ UNCHANGED <<pl_caller, pl_transcription, pl_structure, pl_cleaned_file,
                   pl_clean_segments, pl_k, pl_analysis_segments, pl_segments>>
    /\ UNCHANGED <<ck_vars, as_vars, mg_vars, tp_vars, cl_vars, vz_vars, ol_vars, mn_vars, gn_vars, tr_vars>>

\* main.py:196-198: the exception of stage 2 is logged and main returns 1
PipeAnalysisFail ==
    /\ pl_pc = "analysis"
    /\ as_pc = "raised"
    /\ pl_pc' = "failed"
    /\ UNCHANGED <<pl_caller, pl_transcription, pl_structure, pl_cleaned_file,
                   pl_clean_segments, pl_k, pl_analysis_segments, pl_segments>>
    /\ UNCHANGED <<ck_vars, as_vars, mg_vars, tp_vars, cl_vars, vz_vars, ol_vars, mn_vars, gn_vars, tr_vars>>

\* the outlines of the runs
PipeOutlines ==
    { << >>,
      << Leaf("A", "flora", 1), Leaf("B", "fauna", 1) >>,
      << Node("A", "flora", 1, << Leaf(NoKey, "aves", 2) >>) >> }

\* main.py:107-111, 130: the run starts with the two input files; the names of
\* the output files hold the time of the run, so none of them exists yet
InitPipeline ==
    /\ TranscribeIdle
    /\ GenerateIdle
    /\ MainIdle
    /\ OutlineIdle
    /\ VectorizeIdle
    /\ ChunkIdle
    /\ AssignIdle
    /\ MergeIdle
    /\ TopicsIdle
    /\ CleanIdle
    /\ pl_pc = "clean_call"
    /\ pl_caller = "main"
    /\ \/ pl_transcription = NoFile
       \/ \E n \in 0 .. MaxPipeUtterances :
             \E spans \in [1 .. n -> PipeSpans] : \E texts \in [1 .. n -> PipeTexts] :
                pl_transcription =
                    [exists |-> TRUE,
                     data |-> [k \in 1 .. n |-> PipeUtterance(spans[k], texts[k])]]
    /\ \/ pl_structure = [exists |-> FALSE, secciones |-> << >>]
       \/ \E o \in PipeOutlines : pl_structure = [exists |-> TRUE, secciones |-> o]
    /\ pl_cleaned_file = NoFile
    /\ pl_clean_segments = << >>
    /\ pl_k = 0
    /\ pl_analysis_segments = << >>
    /\ pl_segments = << >>

\* ChunkReturn is not among the steps: the loop of create_text_chunks is only
\* entered with a text longer than max_chunk_size, and with overlap = 100 its
\* `start` then never reaches len(text)
NextPipeline ==
    \/ PipeCleanLoadFail \/ PipeCleanCall \/ PipeCleanReturn \/ PipeSegmentCall
    \/ PipeNoCleanSegments \/ PipeTopicsCall \/ PipeTopicsReturn
    \/ PipeChunkCall \/ PipeChunkCollect \/ PipeChunkFail \/ PipeWriteSegments
    \/ PipeAnalysisCall \/ PipeAnalysisReturn \/ PipeAnalysisFail
    \/ MergeCall \/ MergeStep \/ MergeReturn
    \/ TopicsCall
    \/ ChunkCall \/ ChunkStep \/ ChunkMemoryError
    \/ ProcessLoad \/ ProcessVectorize \/ AssignCall \/ AssignStep \/ AssignReturn
    \/ ProcessSortSave

SpecPipeline == InitPipeline /\ [][NextPipeline]_vars

(***************************************************************************)
(* C9: for an empty transcript (zero utterances) the pipeline produces an  *)
(* empty segment list and then an Assignment Map in which every section id *)
(* of the outline is mapped to an empty list, without any error.           *)
(***************************************************************************)
C9_EmptyTranscript ==
    (/\ pl_transcription.exists
     /\ pl_transcription.data = << >>
     /\ pl_structure.exists
     /\ ~Malformed(pl_structure.secciones)
     /\ pl_pc \in {"done", "failed"})
    => /\ pl_pc = "done"
       /\ pl_segments = << >>
       /\ DOMAIN as_assignments = SectionIds(extract_sections_data(pl_structure))
       /\ \A id \in DOMAIN as_assignments : as_assignments[id] = << >>

(***************************************************************************)
(* C11: the cleaning sequence of clean_transcription (correct_common_-     *)
(* transcription_errors, normalize_punctuation, clean_speaker_indicators)  *)
(* is idempotent: applied to its own output it returns that output         *)
(* unchanged, for every input text.                                        *)
(***************************************************************************)
C11_CleaningIdempotent ==
    (cl_pc = "cleaned" /\ cl_pass = 2) => cl_text = cl_first

(***************************************************************************)
(* The TF-IDF path of process_segments_and_sections, vectorizer.py:147-159,*)
(* 162-178 and 286-294. A text is the list of the tokens the analyzer      *)
(* leaves of it; a vector holds the count of each feature of the fitted    *)
(* vocabulary (the weighting by document frequency and the normalisation   *)
(* do not change which columns there are).                                 *)
(***************************************************************************)
MaxTokens == 2        \* texts of 0..MaxTokens tokens
MaxTexts == 2         \* text lists of 0..MaxTexts texts

Words == {"agua", "flora"}

\* the features the words can make with ngram_range=(1, 2), in the
\* alphabetical order in which a fitted vocabulary numbers its columns
AllFeatures == << "agua", "agua agua", "agua flora", "flora", "flora agua", "flora flora" >>

FeatureRank(f) == CHOOSE k \in 1 .. Len(AllFeatures) : AllFeatures[k] = f

\* Line 157, ngram_range=(1, 2): the words of a text and its pairs of
\* adjacent words
Features(text) ==
    {text[k] : k \in 1 .. Len(text)}
    \cup {text[k] \o " " \o text[k + 1] : k \in 1 .. Len(text) - 1}

\* how often feature f occurs in a text
FeatureCount(text, f) ==
    Cardinality({k \in 1 .. Len(text) : text[k] = f})
    + Cardinality({k \in 1 .. Len(text) - 1 : text[k] \o " " \o text[k + 1] = f})

\* Line 158: the vocabulary vectorizer.fit_transform(texts) learns
Vocabulary(texts) == UNION {Features(texts[k]) : k \in 1 .. Len(texts)}

\* Lines 157-158: fit_transform raises ValueError when the name of the stop
\* word list is not accepted, and when the texts yield no feature at all
FitRaises(texts, stop_words_ok) == ~stop_words_ok \/ Vocabulary(texts) = {}

\* Lines 157-159: a new TfidfVectorizer is made and fit on `texts` alone; the
\* matrix has one row per text and one column per feature of its vocabulary
vectorize_with_tfidf(texts) ==
    [rows |-> Len(texts),
     vocabulary |-> Vocabulary(texts),
     counts |-> [k \in 1 .. Len(texts) |->
                    [f \in Vocabulary(texts) |-> FeatureCount(texts[k], f)]]]

\* the number of columns of a matrix, and the feature of its c-th column
Dimension(vectors) == Cardinality(vectors.vocabulary)

Column(vectors, c) ==
    CHOOSE f \in vectors.vocabulary :
        Cardinality({g \in vectors.vocabulary : FeatureRank(g) < FeatureRank(f)}) = c - 1

\* the product of row i of X and row j of Y, column by column, up to column c
RECURSIVE DotProduct(_, _, _, _, _)
DotProduct(X, i, Y, j, c) ==
    IF c = 0 THEN 0
    ELSE X.counts[i][Column(X, c)] * Y.counts[j][Column(Y, c)]
         + DotProduct(X, i, Y, j, c - 1)

\* Lines 174-178: cosine_similarity(segment_vectors, section_vectors) pairs
\* the columns of the two matrices by their number
calculate_similarity_matrix(section_vectors, segment_vectors) ==
    [i \in 1 .. segment_vectors.rows |->
        [j \in 1 .. section_vectors.rows |->
            DotProduct(segment_vectors, i, section_vectors, j, Dimension(segment_vectors))]]

\* what the vectorization leaves alone
VectorizeFrame == UNCHANGED <<ck_vars, as_vars, mg_vars, tp_vars, cl_vars, pl_vars, ol_vars, mn_vars, gn_vars, tr_vars>>

\* Line 289: vectorizer, section_vectors = vectorize_with_tfidf(section_texts)
VectorizeSections ==
    /\ vz_pc = "sections"
    /\ IF FitRaises(vz_section_texts, vz_stop_words_ok)
       THEN /\ vz_pc' = "raised"
            /\ UNCHANGED vz_section_vectors
       ELSE /\ vz_pc' = "segments"
            /\ vz_section_vectors' = vectorize_with_tfidf(vz_section_texts)
    /\ UNCHANGED <<vz_stop_words_ok, vz_segment_texts, vz_section_texts,
                   vz_segment_vectors, vz_similarity>>
    /\ VectorizeFrame

\* Line 290: _, segment_vectors = vectorize_with_tfidf(segment_texts)
VectorizeSegments ==
    /\ vz_pc = "segments"
    /\ IF FitRaises(vz_segment_texts, vz_stop_words_ok)
       THEN /\ vz_pc' = "raised"
            /\ UNCHANGED vz_segment_vectors
       ELSE /\ vz_pc' = "similarity"
            /\ vz_segment_vectors' = vectorize_with_tfidf(vz_segment_texts)
    /\ UNCHANGED <<vz_stop_words_ok, vz_segment_texts, vz_section_texts,
                   vz_section_vectors, vz_similarity>>
    /\ VectorizeFrame

\* Line 293: cosine_similarity raises ValueError when the two matrices do not
\* have the same number of columns
VectorizeSimilarity ==
    /\ vz_pc = "similarity"
    /\ IF Dimension(vz_segment_vectors) # Dimension(vz_section_vectors)
       THEN /\ vz_pc' = "raised"
            /\ UNCHANGED vz_similarity
       ELSE /\ vz_pc' = "computed"
            /\ vz_similarity' =
                   calculate_similarity_matrix(vz_section_vectors, vz_segment_vectors)
    /\ UNCHANGED <<vz_stop_words_ok, vz_segment_texts, vz_section_texts,
                   vz_section_vectors, vz_segment_vectors>>
    /\ VectorizeFrame

\* the texts of n tokens
TokenTexts(n) == [1 .. n -> Words]

\* the lists of m texts
TextLists(m) == [1 .. m -> UNION {TokenTexts(n) : n \in 0 .. MaxTokens}]

\* Lines 272-290 with no transformer model: the two text lists are ready
InitVectorize ==
    /\ TranscribeIdle
    /\ GenerateIdle
    /\ MainIdle
    /\ OutlineIdle
    /\ ChunkIdle
    /\ AssignIdle
    /\ MergeIdle
    /\ TopicsIdle
    /\ CleanIdle
    /\ PipeIdle
    /\ vz_pc = "sections"
    /\ vz_stop_words_ok \in BOOLEAN
    /\ \E m \in 0 .. MaxTexts : vz_segment_texts \in TextLists(m)
    /\ \E n \in 0 .. MaxTexts : vz_section_texts \in TextLists(n)
    /\ vz_section_vectors = NoVectors
    /\ vz_segment_vectors = NoVectors
    /\ vz_similarity = << >>

NextVectorize == VectorizeSections \/ VectorizeSegments \/ VectorizeSimilarity

SpecVectorize == InitVectorize /\ [][NextVectorize]_vars

(***************************************************************************)
(* C12: on the TF-IDF path, segment vectors and section vectors come from  *)
(* one model fit on the combined corpus, so both vector sets have the same *)
(* vocabulary and dimension and the M x N similarity matrix can be         *)
(* computed.                                                               *)
(***************************************************************************)
C12_SharedVocabulary ==
    (/\ vz_stop_words_ok
     /\ Vocabulary(vz_segment_texts) # {}
     /\ Vocabulary(vz_section_texts) # {})
    => /\ vz_pc # "raised"
       /\ vz_pc \in {"similarity", "computed"} =>
             /\ vz_segment_vectors.vocabulary = vz_section_vectors.vocabulary
             /\ vz_segment_vectors.vocabulary =
                    Vocabulary(vz_segment_texts \o vz_section_texts)
             /\ Dimension(vz_segment_vectors) = Dimension(vz_section_vectors)

(***************************************************************************)
(* C13: every segment the topic segmenter returns, on the normal path and  *)
(* on the vectorization-failure fallback path, carries a provenance index  *)
(* list (original_indices) that is non-empty and strictly increasing;      *)
(* topics appear in input order and their index lists are pairwise         *)
(* disjoint.                                                               *)
(***************************************************************************)
StrictlyIncreasing(indices) ==
    \A x \in 1 .. Len(indices) - 1 : indices[x] < indices[x + 1]

C13_Provenance ==
    tp_pc = "returned" =>
        /\ \A t \in 1 .. Len(tp_result) :
              /\ tp_result[t].has_original_indices
              /\ tp_result[t].original_indices # << >>
              /\ StrictlyIncreasing(tp_result[t].original_indices)
        /\ \A t \in 1 .. Len(tp_result) - 1 :
              tp_result[t].original_indices[Len(tp_result[t].original_indices)]
                  < tp_result[t + 1].original_indices[1]

(***************************************************************************)
(* C14: when vectorization fails inside segment_by_topics the failure is   *)
(* not fatal: the result is one topic per valid segment, in original       *)
(* order, and process_transcription_for_analysis still completes, also     *)
(* when a valid segment's text is longer than max_chunk_size.              *)
(***************************************************************************)
\* segment_by_topics has returned from its fallback to the pipeline
FallbackTaken ==
    /\ pl_pc \in {"chunking", "chunk_call", "stage2", "analysis", "done", "failed"}
    /\ tp_pc = "returned"
    /\ ~tp_vec_ok

\* the run ended in stage 1: stage 2 was never called
FailedInStage1 == pl_pc = "failed" /\ as_pc = "idle"

C14_FallbackNotFatal ==
    FallbackTaken =>
        LET valid == valid_indices([k \in 1 .. Len(tp_segments) |-> tp_segments[k].text],
                                   tp_min_length)
        IN /\ Len(tp_result) = Len(valid)
           /\ \A k \in 1 .. Len(valid) :
                 /\ tp_result[k].text = tp_segments[valid[k]].text
                 /\ tp_result[k].timestamp = tp_segments[valid[k]].timestamp
           /\ ~FailedInStage1

(***************************************************************************)
(* Which sections a segment was assigned to                                *)
(***************************************************************************)
\* no two sections of the flattened outline have the same id
DistinctIds ==
    \A j, k \in 1 .. Len(as_sections) :
        j # k => as_sections[j].id # as_sections[k].id

\* segment i has an entry in the list of section j
Kept(i, j) ==
    \E x \in 1 .. Len(as_assignments[as_sections[j].id]) :
        as_assignments[as_sections[j].id][x].seg = i

\* the call returned a map made by the loop of lines 197-218
AssignedAll == as_pc = "returned" /\ as_i > Len(as_segments) /\ DistinctIds

(***************************************************************************)
(* C15: ties in the per-segment ranking are broken by outline order: when  *)
(* two sections clear the threshold with equal similarity for a segment    *)
(* and top_n cuts between them, the section with the lower index in the    *)
(* flattened outline is the one kept.                                      *)
(***************************************************************************)
C15_TieBreakByOutlineOrder ==
    (AssignedAll /\ as_top_n >= 1) =>
        \A i \in 1 .. Len(as_segments) : \A j, k \in 1 .. Len(as_sections) :
            (/\ j < k
             /\ as_sim[i][j] = as_sim[i][k]
             /\ as_sim[i][j] >= as_threshold
             /\ Kept(i, k))
            => Kept(i, j)

(***************************************************************************)
(* C16: for each segment the kept sections are the best ones: if section j *)
(* is kept for segment i and section k is not, then similarity[i][k] is    *)
(* below the threshold or at most similarity[i][j]; and if fewer than      *)
(* top_n sections are kept, every section at or above the threshold is     *)
(* kept.                                                                   *)
(***************************************************************************)
KeptCount(i) == Cardinality({j \in 1 .. Len(as_sections) : Kept(i, j)})

C16_KeptAreBest ==
    AssignedAll =>
        \A i \in 1 .. Len(as_segments) :
            /\ \A j, k \in 1 .. Len(as_sections) :
                  (Kept(i, j) /\ ~Kept(i, k))
                  => (as_sim[i][k] < as_threshold \/ as_sim[i][k] <= as_sim[i][j])
            /\ KeptCount(i) < as_top_n =>
                  \A j \in 1 .. Len(as_sections) :
                      as_sim[i][j] >= as_threshold => Kept(i, j)

\* top_n cut a section that clears the threshold, in favour of a better one,
\* and another segment kept fewer than top_n sections
C16_Witness ==
    /\ AssignedAll
    /\ \E i \in 1 .. Len(as_segments) : \E j, k \in 1 .. Len(as_sections) :
          /\ Kept(i, j) /\ ~Kept(i, k)
          /\ as_sim[i][k] >= as_threshold
          /\ as_sim[i][k] < as_sim[i][j]
    /\ \E i \in 1 .. Len(as_segments) : \E j \in 1 .. Len(as_sections) :
          /\ KeptCount(i) < as_top_n
          /\ Kept(i, j)

(***************************************************************************)
(* C17: in segment_by_topics two consecutive retained segments fall in the *)
(* same topic if and only if their similarity is at or above the           *)
(* threshold; the first retained segment starts a topic, so the number of  *)
(* topics is 1 plus the number of consecutive retained pairs whose         *)
(* similarity is below the threshold.                                      *)
(***************************************************************************)
\* the retained segments of the call, in order
Retained ==
    valid_indices([k \in 1 .. Len(tp_segments) |-> tp_segments[k].text], tp_min_length)

\* the call returned from lines 90-129, where the similarities exist
TopicsGrouped == tp_pc = "returned" /\ tp_vec_ok /\ Retained # << >>

\* input segments i and j are listed by the same topic
InSameTopic(i, j) ==
    \E t \in 1 .. Len(tp_result) :
        /\ \E x \in 1 .. Len(tp_result[t].original_indices) : ListedAt(t, x, i)
        /\ \E x \in 1 .. Len(tp_result[t].original_indices) : ListedAt(t, x, j)

\* the consecutive retained pairs whose similarity is below the threshold
PairsBelow == { p \in 1 .. Len(Retained) - 1 : tp_similarities[p] < tp_threshold }

C17_TopicBoundaries ==
    TopicsGrouped =>
        /\ \A p \in 1 .. Len(Retained) - 1 :
              InSameTopic(Retained[p], Retained[p + 1])
                  <=> tp_similarities[p] >= tp_threshold
        /\ ListedAt(1, 1, Retained[1])
        /\ Len(tp_result) = 1 + Cardinality(PairsBelow)

\* a pair exactly at the threshold shares a topic, a pair below it does not,
\* and a short segment lies between two retained ones
C17_Witness ==
    /\ TopicsGrouped
    /\ Len(Retained) >= 3
    /\ \E p \in 1 .. Len(Retained) - 1 :
          /\ tp_similarities[p] = tp_threshold
          /\ InSameTopic(Retained[p], Retained[p + 1])
    /\ \E p \in 1 .. Len(Retained) - 1 :
          /\ tp_similarities[p] < tp_threshold
          /\ ~InSameTopic(Retained[p], Retained[p + 1])
    /\ \E p \in 1 .. Len(Retained) - 1 : Retained[p + 1] > Retained[p] + 1

(***************************************************************************)
(* C18: every merged segment returned by merge_related_segments is built   *)
(* from one contiguous run of input utterances: its text is the texts of   *)
(* the run joined by single spaces in order, its start is the first        *)
(* utterance's start and its end is the last utterance's end; the runs,    *)
(* concatenated in order, are exactly the input sequence; and empty input  *)
(* yields empty output.                                                    *)
(***************************************************************************)
\* the utterances of merged segments k, k+1, ... in order
RECURSIVE RunsFrom(_)
RunsFrom(k) ==
    IF k > Len(mg_merged) THEN << >>
    ELSE mg_merged[k].members \o RunsFrom(k + 1)

\* the texts of the utterances of a run, as they were passed
RunTexts(run) == [x \in 1 .. Len(run) |-> mg_input[run[x]].text]

C18_MergedRuns ==
    mg_pc = "returned" =>
        /\ RunsFrom(1) = [i \in 1 .. Len(mg_input) |-> i]
        /\ \A k \in 1 .. Len(mg_merged) :
              LET run == mg_merged[k].members
              IN /\ run # << >>
                 /\ mg_merged[k].text = JoinSpace(RunTexts(run))
                 /\ TimestampOf(mg_segments, mg_merged[k]).start
                        = mg_input[run[1]].timestamp.start
                 /\ TimestampOf(mg_segments, mg_merged[k]).end
                        = mg_input[run[Len(run)]].timestamp.end
        /\ mg_input = << >> => mg_merged = << >>

\* three utterances returned as a run of two, whose ends differ, and a run of one
C18_Witness ==
    /\ mg_pc = "returned"
    /\ Len(mg_input) = 3
    /\ Len(mg_merged) = 2
    /\ mg_merged[1].members = << 1, 2 >>
    /\ mg_input[1].timestamp.end # mg_input[2].timestamp.end
    /\ mg_merged[2].members = << 3 >>

(***************************************************************************)
(* C19: merge_related_segments leaves its input unchanged: after the call  *)
(* every input utterance record still has the start time, end time and     *)
(* text it had before the call, the first utterance of each merged run     *)
(* included.                                                               *)
(***************************************************************************)
C19_InputUnchanged ==
    mg_pc = "returned" =>
        \A i \in 1 .. Len(mg_input) :
            /\ mg_segments[i].timestamp.start = mg_input[i].timestamp.start
            /\ mg_segments[i].timestamp.end = mg_input[i].timestamp.end
            /\ mg_segments[i].text = mg_input[i].text

(***************************************************************************)
(* C20: every chunk returned by create_text_chunks is non-empty and at     *)
(* most max_chunk_size characters long, and a text of length at most       *)
(* max_chunk_size is returned as a single chunk equal to the text.         *)
(***************************************************************************)
C20_ChunkBounds ==
    ck_pc = "returned" =>
        /\ \A k \in 1 .. Len(ck_chunks) :
              /\ ChunkTexts[k].len > 0
              /\ ChunkTexts[k].len <= ck_max
        /\ ck_text.len <= ck_max => ChunkTexts = << ck_text >>

(***************************************************************************)
(* C20, amended: every chunk returned by create_text_chunks is at most     *)
(* max_chunk_size characters long, and non-empty when the text is not      *)
(* empty; a text of length at most max_chunk_size, the empty text          *)
(* included, is returned as a single chunk equal to the text.              *)
(***************************************************************************)
C20_ChunkBoundsOfNonEmptyText ==
    ck_pc = "returned" =>
        /\ \A k \in 1 .. Len(ck_chunks) :
              /\ ck_text.len > 0 => ChunkTexts[k].len > 0
              /\ ChunkTexts[k].len <= ck_max
        /\ ck_text.len <= ck_max => ChunkTexts = << ck_text >>

\* the loop returned several chunks, one of them cut short after a period
C20_Witness ==
    /\ ck_pc = "returned"
    /\ ck_text.len > ck_max
    /\ Len(ck_chunks) >= 2
    /\ \E k \in 1 .. Len(ck_chunks) :
          /\ ChunkTexts[k].len < ck_max
          /\ ck_chunks[k].end < ck_text.len
          /\ ck_chunks[k].end - 1 \in ck_text.dots

(***************************************************************************)
(* The nodes of an outline, addressed by their position in the tree        *)
(***************************************************************************)
\* the positions of the records of a list of siblings and of their
\* subsections: <<k>> is the k-th sibling, <<k, j>> its j-th subsection
RECURSIVE Positions(_)
Positions(nodes) ==
    UNION { { << k >> \o q : q \in { << >> } \cup Positions(nodes[k].subsecciones) } :
              k \in 1 .. Len(nodes) }

RECURSIVE NodeAt(_, _)
NodeAt(nodes, pos) ==
    IF Len(pos) = 1 THEN nodes[pos[1]]
    ELSE NodeAt(nodes[pos[1]].subsecciones, Tail(pos))

\* position p is an ancestor of position q
IsAncestor(p, q) == Len(p) < Len(q) /\ SubSeq(q, 1, Len(p)) = p

\* pre-order: an ancestor comes before its descendants, and otherwise the
\* earlier sibling's subtree comes first
Before(p, q) ==
    \/ IsAncestor(p, q)
    \/ \E i \in 1 .. Min(Len(p), Len(q)) :
          /\ SubSeq(p, 1, i - 1) = SubSeq(q, 1, i - 1)
          /\ p[i] < q[i]

\* the place of position p in the pre-order of the outline passed in
Rank(p) == 1 + Cardinality({ q \in Positions(ol_structure) : Before(q, p) })

\* the titles from the root to the node at pos, joined by "/"
RECURSIVE Breadcrumb(_, _)
Breadcrumb(nodes, pos) ==
    IF Len(pos) = 1 THEN nodes[pos[1]].titulo
    ELSE nodes[pos[1]].titulo \o "/" \o Breadcrumb(nodes[pos[1]].subsecciones, Tail(pos))

(***************************************************************************)
(* C21: extract_sections_data returns the sections in pre-order: exactly   *)
(* one entry per node of the outline tree, each parent before all of its   *)
(* descendants, siblings in declaration order, each entry's path being the *)
(* titles from the root to that node; and the outline passed in is not     *)
(* modified.                                                               *)
(***************************************************************************)
C21_PreOrder ==
    ol_pc = "returned" =>
        /\ Len(ol_sections) = Cardinality(Positions(ol_structure))
        /\ \A p \in Positions(ol_structure) :
              /\ ol_sections[Rank(p)].id = NodeAt(ol_structure, p).id
              /\ ol_sections[Rank(p)].titulo = NodeAt(ol_structure, p).titulo
              /\ ol_sections[Rank(p)].path = Breadcrumb(ol_structure, p)
        /\ ol_outline = ol_structure

(***************************************************************************)
(* C22: a section record missing its id or title, at any depth of the      *)
(* outline, makes flattening fail with an error that reaches the caller,   *)
(* and no partial output is produced: no partial section list is returned  *)
(* and no Assignment Map is returned or written for that outline.          *)
(***************************************************************************)
\* some record of the outline, at some depth, lacks 'id' or 'titulo'
\* (stated over the positions of the tree, not by the walk of the code)
MissingKey(nodes) ==
    \E p \in Positions(nodes) :
        NodeAt(nodes, p).id = NoKey \/ NodeAt(nodes, p).titulo = NoKey

AncestorIdRepeated(nodes) ==
    \E p, q \in Positions(nodes) :
        /\ IsAncestor(p, q)
        /\ NodeAt(nodes, p).id # NoKey
        /\ NodeAt(nodes, p).id = NodeAt(nodes, q).id

C23_AncestorIdRejected ==
    AncestorIdRepeated(ol_structure) => ol_pc # "returned"

(***************************************************************************)
(* C24: assign_segments_to_sections does not modify its inputs: after the  *)
(* call no input segment has a similarity_score field and the segments     *)
(* list is unchanged; a segment assigned to several sections appears in    *)
(* each list as a separate copy carrying that section's own score.         *)
(***************************************************************************)
C24_InputsKept ==
    (as_entry = "assign" /\ AssignedAll) =>
        /\ as_segments = SegmentList(Len(as_segments))
        /\ \A i \in 1 .. Len(as_segments) :
              "similarity_score" \notin DOMAIN as_segments[i]
        /\ \A j \in 1 .. Len(as_sections) :
              \A x \in 1 .. Len(as_assignments[as_sections[j].id]) :
                 LET e == as_assignments[as_sections[j].id][x]
                 IN /\ e.text = as_segments[e.seg].text
                    /\ e.similarity_score = as_sim[e.seg][j]

\* one segment is filed under two sections with different scores
C24_Witness ==
    /\ as_entry = "assign"
    /\ AssignedAll
    /\ \E i \in 1 .. Len(as_segments) : \E j, k \in 1 .. Len(as_sections) :
          /\ Kept(i, j) /\ Kept(i, k)
          /\ as_sim[i][j] # as_sim[i][k]

(***************************************************************************)
(* C25: in create_text_chunks the chunks cover the text without gaps: the  *)
(* first chunk starts at position 0, each later chunk starts exactly       *)
(* `overlap` characters before the end of the previous chunk, and the last *)
(* chunk ends at the end of the text, so every character position lies in  *)
(* at least one chunk and each chunk start is strictly greater than the    *)
(* previous chunk start. Stated for the list the function builds, for      *)
(* 0 <= 2 * overlap < max_chunk_size.                                      *)
(***************************************************************************)
C25_ChunksCover ==
    (ck_pc \in {"loop", "returned", "memory_error"} /\ 2 * ck_overlap < ck_max) =>
        /\ \A k \in 1 .. Len(ck_chunks) :
              /\ k = 1 => ck_chunks[k].start = 0
              /\ k > 1 => /\ ck_chunks[k].start = ck_chunks[k - 1].end - ck_overlap
                          /\ ck_chunks[k].start > ck_chunks[k - 1].start
        /\ ck_pc = "returned" =>
              /\ ck_chunks[Len(ck_chunks)].end = ck_text.len
              /\ \A c \in 0 .. ck_text.len - 1 :
                    \E k \in 1 .. Len(ck_chunks) :
                        ck_chunks[k].start <= c /\ c < ck_chunks[k].end

(***************************************************************************)
(* C26: the Assignment Map has exactly one key per section of the          *)
(* flattened outline, and no section's list contains two entries for the   *)
(* same segment.                                                           *)
(***************************************************************************)
C26_OneKeyPerSection ==
    (as_entry = "assign" /\ as_pc = "returned") =>
        /\ Cardinality(DOMAIN as_assignments) = Len(as_sections)
        /\ \A id \in DOMAIN as_assignments :
              \A x, y \in 1 .. Len(as_assignments[id]) :
                 x # y => as_assignments[id][x].seg # as_assignments[id][y].seg

(***************************************************************************)
(* main, main.py:129-282: the four stages. Each stage function is taken    *)
(* by what it returns, raises and writes for the files it is given.        *)
(***************************************************************************)
\* the transcript at args.transcription: absent; present without utterance
\* lines; present with utterances; present with a text on which stage 1 raises
Transcriptions == {"missing", "empty", "ok", "raises"}

\* the outline at args.structure: absent, well-formed, or with a record that
\* lacks 'id' or 'titulo'
Structures == {"missing", "ok", "malformed"}

MainFrame ==
    UNCHANGED <<ck_vars, as_vars, mg_vars, tp_vars, cl_vars, pl_vars, vz_vars,
                ol_vars, gn_vars, tr_vars>>

\* Lines 130-165. clean_transcription returns [] when the transcript cannot
\* be loaded (cleaner.py:212-217) and process_transcription_for_analysis then
\* returns [] before writing the segments file (segmenter.py:192-194), as it
\* does for a transcript without utterances; neither raises.
MainStage1 ==
    /\ mn_pc = "stage1"
    /\ IF mn_args.skip_preprocessing
       THEN /\ mn_segments_file' = mn_env.old_segments
            /\ UNCHANGED <<mn_started, mn_failed>>
            /\ IF mn_env.old_segments
               THEN mn_pc' = "stage2" /\ UNCHANGED mn_code
               ELSE mn_pc' = "returned" /\ mn_code' = 1
       ELSE /\ mn_started' = Append(mn_started, 1)
            /\ mn_segments_file' = (mn_env.transcription = "ok")
            /\ mn_failed' = IF mn_env.transcription \in {"missing", "raises"}
                            THEN mn_failed \cup {1} ELSE mn_failed
            /\ IF mn_env.transcription = "raises"
               THEN mn_pc' = "returned" /\ mn_code' = 1
               ELSE mn_pc' = "stage2" /\ UNCHANGED mn_code
    /\ UNCHANGED <<mn_args, mn_env, mn_assignments_file, mn_content_file>>
    /\ MainFrame

\* Lines 167-210. process_segments_and_sections returns {} without raising
\* when the segments file or the outline cannot be loaded (vectorizer.py:
\* 259-270); otherwise it raises out of the vectorization or writes the
\* assignments file and returns the map.
MainStage2 ==
    /\ mn_pc = "stage2"
    /\ IF mn_args.skip_analysis
       THEN /\ mn_assignments_file' = mn_env.old_assignments
            /\ UNCHANGED <<mn_started, mn_failed>>
            /\ IF mn_env.old_assignments
               THEN mn_pc' = "stage3" /\ UNCHANGED mn_code
               ELSE mn_pc' = "returned" /\ mn_code' = 1
       ELSE /\ mn_started' = Append(mn_started, 2)
            /\ IF ~mn_segments_file \/ mn_env.structure # "ok"
               THEN /\ mn_failed' = mn_failed \cup {2}
                    /\ mn_assignments_file' = FALSE
                    /\ mn_pc' = "stage3" /\ UNCHANGED mn_code
               ELSE IF ~mn_env.vectors
               THEN /\ mn_failed' = mn_failed \cup {2}
                    /\ mn_assignments_file' = FALSE
                    /\ mn_pc' = "returned" /\ mn_code' = 1
               ELSE /\ UNCHANGED mn_failed
                    /\ mn_assignments_file' = TRUE
                    /\ mn_pc' = "stage3" /\ UNCHANGED mn_code
    /\ UNCHANGED <<mn_args, mn_env, mn_segments_file, mn_content_file>>
    /\ MainFrame

\* Lines 212-248. process_content_for_report returns {} without raising when
\* the assignments file or the outline cannot be loaded (ai_client.py:
\* 404-419); otherwise process_all_sections raises when no client can be
\* made, or the content file is written.
MainStage3 ==
    /\ mn_pc = "stage3"
    /\ IF mn_args.skip_generation
       THEN /\ mn_content_file' = mn_env.old_content
            /\ UNCHANGED <<mn_started, mn_failed>>
            /\ IF mn_env.old_content
               THEN mn_pc' = "stage4" /\ UNCHANGED mn_code
               ELSE mn_pc' = "returned" /\ mn_code' = 1
       ELSE /\ mn_started' = Append(mn_started, 3)
            /\ IF ~mn_assignments_file \/ mn_env.structure # "ok"
               THEN /\ mn_failed' = mn_failed \cup {3}
                    /\ mn_content_file' = FALSE
                    /\ mn_pc' = "stage4" /\ UNCHANGED mn_code
               ELSE IF ~mn_env.client
               THEN /\ mn_failed' = mn_failed \cup {3}
                    /\ mn_content_file' = FALSE
                    /\ mn_pc' = "returned" /\ mn_code' = 1
               ELSE /\ UNCHANGED mn_failed
                    /\ mn_content_file' = TRUE
                    /\ mn_pc' = "stage4" /\ UNCHANGED mn_code
    /\ UNCHANGED <<mn_args, mn_env, mn_segments_file, mn_assignments_file>>
    /\ MainFrame

\* Lines 250-282: the report builder is imported and called with the names
\* of the content file and of the outline; whatever the import or the call
\* raises gives 1, a return gives 0
MainStage4 ==
    /\ mn_pc = "stage4"
    /\ mn_started' = Append(mn_started, 4)
    /\ IF mn_env.builder
       THEN mn_code' = 0 /\ UNCHANGED mn_failed
       ELSE mn_code' = 1 /\ mn_failed' = mn_failed \cup {4}
    /\ mn_pc' = "returned"
    /\ UNCHANGED <<mn_args, mn_env, mn_segments_file, mn_assignments_file,
                   mn_content_file>>
    /\ MainFrame

\* Lines 107-111: the names of the intermediate files hold the time of the
\* run, so none of them exists when the run starts
InitMain ==
    /\ TranscribeIdle
    /\ GenerateIdle
    /\ OutlineIdle
    /\ VectorizeIdle
    /\ ChunkIdle
    /\ AssignIdle
    /\ MergeIdle
    /\ TopicsIdle
    /\ CleanIdle
    /\ PipeIdle
    /\ mn_pc = "stage1"
    /\ mn_args \in [skip_preprocessing : BOOLEAN, skip_analysis : BOOLEAN,
                    skip_generation : BOOLEAN]
    /\ mn_env \in [transcription : Transcriptions, structure : Structures,
                   old_segments : BOOLEAN, old_assignments : BOOLEAN,
                   old_content : BOOLEAN, vectors : BOOLEAN, client : BOOLEAN,
                   builder : BOOLEAN]
    /\ mn_segments_file = FALSE
    /\ mn_assignments_file = FALSE
    /\ mn_content_file = FALSE
    /\ mn_started = << >>
    /\ mn_failed = {}
    /\ mn_code = -1

NextMain == MainStage1 \/ MainStage2 \/ MainStage3 \/ MainStage4

SpecMain == InitMain /\ [][NextMain]_vars

(***************************************************************************)
(* C27: in main() the stages run in the order preprocessing, analysis,     *)
(* generation, report construction, and no stage is started after an       *)
(* earlier stage has failed: in particular, when the analysis stage cannot *)
(* load the segments file or the outline, main returns 1 without starting  *)
(* the generation stage or the report-construction stage.                  *)
(***************************************************************************)
C27_NoStageAfterFailure ==
    /\ \A a, b \in 1 .. Len(mn_started) : a < b => mn_started[a] < mn_started[b]
    /\ \A k \in 1 .. Len(mn_started) :
          \A f \in mn_failed : f >= mn_started[k]
    /\ (mn_pc = "returned" /\ mn_failed # {}) => mn_code = 1

(***************************************************************************)
(* process_all_sections and generate_section_content,                      *)
(* ai_client.py:287-388                                                    *)
(***************************************************************************)
MaxGenKeys == 3       \* assignment maps with 0..MaxGenKeys keys

\* the ids the maps and the outlines are made of
GenIds == {"A", "B", "C"}

\* the key lists of the dicts of up to n keys: no key twice
KeyLists(n) ==
    UNION { { ks \in [1 .. m -> GenIds] :
                \A a, b \in 1 .. m : a # b => ks[a] # ks[b] } : m \in 0 .. n }

GenerateFrame ==
    UNCHANGED <<ck_vars, as_vars, mg_vars, tp_vars, cl_vars, pl_vars, vz_vars,
                ol_vars, mn_vars, tr_vars>>

\* Lines 353-372: the client of the requested type, else the other one; a
\* constructor raises ValueError when its API key is not configured
\* (lines 72, 150). "none": no client, the ValueError leaves the function.
create_client(client_type, keys_ok) ==
    IF client_type = "anthropic"
    THEN IF keys_ok.anthropic THEN "anthropic"
         ELSE IF keys_ok.openai THEN "openai" ELSE "none"
    ELSE IF keys_ok.openai THEN "openai"
         ELSE IF keys_ok.anthropic THEN "anthropic" ELSE "none"

\* mutant of generate_section_content: the call of the API is not guarded
generate_section_content_Unguarded(section_id, ok) ==
    [raised |-> ~ok, id |-> section_id, error |-> FALSE]

\* Lines 305-334: the API call is inside try/except Exception: when it raises,
\* the result records the error and is returned like any other
generate_section_content(section_id, ok) ==
    [raised |-> FALSE, id |-> section_id, error |-> ~ok]

\* Lines 353-380
GenerateCall ==
    /\ gn_pc = "call"
    /\ gn_client' = create_client(gn_client_type, gn_keys_ok)
    /\ gn_pc' = IF gn_client' = "none" THEN "raised" ELSE "loop"
    /\ gn_k' = 1
    /\ gn_generated' = << >>
    /\ UNCHANGED <<gn_client_type, gn_keys_ok, gn_assignments, gn_section_ids, gn_calls>>
    /\ GenerateFrame

\* Lines 383-387: one key of the assignments; the API call works or raises
GenerateSection ==
    /\ gn_pc = "loop"
    /\ gn_k <= Len(gn_assignments)
    /\ LET section_id == gn_assignments[gn_k]
       IN IF section_id \in gn_section_ids
          THEN \E ok \in BOOLEAN :
                  LET result == generate_section_content(section_id, ok)
                  IN /\ gn_calls' = Append(gn_calls, [id |-> section_id, ok |-> ok])
                     /\ IF result.raised
                        THEN gn_pc' = "raised" /\ UNCHANGED gn_generated
                        ELSE /\ gn_pc' = "loop"
                             /\ gn_generated' =
                                   [id \in DOMAIN gn_generated \cup {section_id} |->
                                       IF id = section_id THEN result
                                       ELSE gn_generated[id]]
          ELSE UNCHANGED <<gn_pc, gn_calls, gn_generated>>
    /\ gn_k' = gn_k + 1
    /\ UNCHANGED <<gn_client_type, gn_keys_ok, gn_client, gn_assignments, gn_section_ids>>
    /\ GenerateFrame

\* Line 388
GenerateReturn ==
    /\ gn_pc = "loop"
    /\ gn_k > Len(gn_assignments)
    /\ gn_pc' = "returned"
    /\ UNCHANGED <<gn_client_type, gn_keys_ok, gn_client, gn_assignments,
                   gn_section_ids, gn_k, gn_calls, gn_generated>>
    /\ GenerateFrame

InitGenerate ==
    /\ TranscribeIdle
    /\ MainIdle
    /\ OutlineIdle
    /\ VectorizeIdle
    /\ ChunkIdle
    /\ AssignIdle
    /\ MergeIdle
    /\ TopicsIdle
    /\ CleanIdle
    /\ PipeIdle
    /\ gn_pc = "call"
    /\ gn_client_type \in {"openai", "anthropic"}
    /\ gn_keys_ok \in [openai : BOOLEAN, anthropic : BOOLEAN]
    /\ gn_client = "none"
    /\ gn_assignments \in KeyLists(MaxGenKeys)
    /\ gn_section_ids \in SUBSET GenIds
    /\ gn_k = 0
    /\ gn_calls = << >>
    /\ gn_generated = << >>

NextGenerate == GenerateCall \/ GenerateSection \/ GenerateReturn

SpecGenerate == InitGenerate /\ [][NextGenerate]_vars

(***************************************************************************)
(* C28: process_all_sections, once a client is constructed, produces       *)
(* exactly one entry in secciones_generadas for every section id that is   *)
(* both a key of the assignments and an id of the outline, even when the   *)
(* API call for some sections raises: a failing section gets an entry      *)
(* recording the error, the failure is not propagated, and all remaining   *)
(* sections are still processed.                                           *)
(***************************************************************************)
\* the keys of the assignments that are ids of the outline
SharedIds ==
    { gn_assignments[k] : k \in 1 .. Len(gn_assignments) } \cap gn_section_ids

\* the calls of the API made for section id
CallsFor(id) == { c \in 1 .. Len(gn_calls) : gn_calls[c].id = id }

C28_EverySectionGenerated ==
    /\ gn_client # "none" => gn_pc # "raised"
    /\ gn_pc = "returned" =>
          /\ DOMAIN gn_generated = SharedIds
          /\ \A id \in SharedIds :
                /\ Cardinality(CallsFor(id)) = 1
                /\ \A c \in CallsFor(id) : gn_generated[id].error = ~gn_calls[c].ok
                /\ gn_generated[id].id = id

\* the API call failed for one section and worked for a later one, and one
\* key of the assignments is no id of the outline
C28_Witness ==
    /\ gn_pc = "returned"
    /\ Len(gn_assignments) = 3
    /\ \E a, b \in 1 .. Len(gn_calls) :
          /\ a < b
          /\ ~gn_calls[a].ok
          /\ gn_calls[b].ok
    /\ \E k \in 1 .. Len(gn_assignments) : gn_assignments[k] \notin gn_section_ids

(***************************************************************************)
(* transcribir_audio_por_segmentos, transcripcionAudio.py:21-109, and      *)
(* extract_timestamped_segments, cleaner.py:35-60, on the file it writes   *)
(***************************************************************************)
\* the default of duracion_segmento, in seconds
DuracionSegmento == 30

\* the lengths of the audio files, in seconds: none, one short segment, one
\* full segment, two segments, three segments
Durations == {0, 10, 30, 45, 70}

\* what happens to a segment: it is recognised; recognize_google raises
\* UnknownValueError; it raises RequestError; segmento.export raises; the
\* recognition raises another exception
Outcomes == {"ok", "unknown_value", "request_error", "export_error", "other_error"}

\* math.ceil(duracion_total / duracion_segmento)
num_segmentos(duration) == (duration + DuracionSegmento - 1) \div DuracionSegmento

Digit(n) == SubSeq("0123456789", n + 1, n + 1)

TwoDigits(n) == Digit(n \div 10) \o Digit(n % 10)

\* time.strftime('%H:%M:%S', time.gmtime(seconds))
strftime(seconds) ==
    TwoDigits((seconds \div 3600) % 24) \o ":" \o TwoDigits((seconds \div 60) % 60)
        \o ":" \o TwoDigits(seconds % 60)

\* Lines 52-57, for segment i (counted from 0)
inicio_tiempo(i) == strftime(i * DuracionSegmento)

fin_tiempo(i, duration) == strftime(Min((i + 1) * DuracionSegmento, duration))

\* Lines 68-78: the text recognised for segment i, or the placeholder
texto_segmento(i, outcome) ==
    IF outcome = "unknown_value" THEN "[inaudible]"
    ELSE IF outcome = "request_error" THEN "[error de servicio]"
    ELSE "texto " \o Digit(i)

\* Line 32
Header == "TRANSCRIPCIÓN EN PROGRESO...\n\n"

\* Line 88
SegmentLine(start, end, text) == "[" \o start \o " - " \o end \o "]: " \o text \o "\n\n"

\* Line 98
ErrorLine == "\n[ERROR] Transcripción interrumpida: error\n"

\* Lines 106-107
Trailer == "\n\nTRANSCRIPCIÓN COMPLETADA\nTiempo total: 1.50 segundos\n"

Digits == {"0", "1", "2", "3", "4", "5", "6", "7", "8", "9"}

\* \d{2}:\d{2}:\d{2} at position i of t
ClockAt(t, i) ==
    /\ i + 7 <= Len(t)
    /\ \A k \in {0, 1, 3, 4, 6, 7} : Char(t, i + k) \in Digits
    /\ Char(t, i + 2) = ":"
    /\ Char(t, i + 5) = ":"

\* \[(\d{2}:\d{2}:\d{2}) - (\d{2}:\d{2}:\d{2})\]: at position i of t
StampLen == 22

StampAt(t, i) ==
    /\ i + StampLen - 1 <= Len(t)
    /\ Char(t, i) = "["
    /\ ClockAt(t, i + 1)
    /\ SubSeq(t, i + 9, i + 11) = " - "
    /\ ClockAt(t, i + 12)
    /\ SubSeq(t, i + 20, i + 21) = "]:"

\* (?=\n\[|$) at position e of t: a newline and a bracket follow, or the
\* text ends here, or only its last newline follows
BodyEndsAt(t, e) ==
    \/ e = Len(t) + 1
    \/ e = Len(t) /\ Char(t, e) = "\n"
    \/ e < Len(t) /\ Char(t, e) = "\n" /\ Char(t, e + 1) = "["

\* (.*?) with re.DOTALL: the body runs to the first place where the
\* lookahead holds
BodyEnd(t, from) == SetMin({ e \in from .. Len(t) + 1 : BodyEndsAt(t, e) })

\* Lines 47-58: re.findall from position pos on: the matches, left to right,
\* each as the record of lines 51-57
RECURSIVE findall_segments(_, _)
findall_segments(t, pos) ==
    LET hits == { j \in pos .. Len(t) : StampAt(t, j) }
    IN IF hits = {} THEN << >>
       ELSE LET j == SetMin(hits)
                e == BodyEnd(t, j + StampLen)
            IN << [timestamp |-> [start |-> SubSeq(t, j + 1, j + 8),
                                  end |-> SubSeq(t, j + 12, j + 19)],
                   text |-> strip(SubSeq(t, j + StampLen, e - 1))] >>
               \o findall_segments(t, e)

extract_timestamped_segments(transcription) == findall_segments(transcription, 1)

TranscribeFrame ==
    UNCHANGED <<ck_vars, as_vars, mg_vars, tp_vars, cl_vars, pl_vars, vz_vars,
                ol_vars, mn_vars, gn_vars>>

\* Lines 30-32: the output file is opened for writing and gets its header
TranscribeOpen ==
    /\ tr_pc = "open"
    /\ tr_file' = Header
    /\ tr_pc' = "load"
    /\ UNCHANGED <<tr_audio_ok, tr_duration, tr_outcomes, tr_i, tr_timer_set,
                   tr_lines, tr_error, tr_result, tr_parsed>>
    /\ TranscribeFrame

\* Lines 35-45: load the audio, count the segments, start the timer; an
\* exception of from_wav goes to the handler of line 95
TranscribeLoad ==
    /\ tr_pc = "load"
    /\ IF tr_audio_ok
       THEN /\ tr_timer_set' = TRUE
            /\ tr_i' = 0
            /\ tr_pc' = "loop"
       ELSE /\ tr_pc' = "except"
            /\ UNCHANGED <<tr_timer_set, tr_i>>
    /\ UNCHANGED <<tr_audio_ok, tr_duration, tr_outcomes, tr_file, tr_lines,
                   tr_error, tr_result, tr_parsed>>
    /\ TranscribeFrame

\* Lines 47-93: one segment. UnknownValueError and RequestError are caught
\* at the call (lines 73-78) and give a placeholder text; any other exception
\* leaves the loop for the handler of line 95.
TranscribeSegment ==
    /\ tr_pc = "loop"
    /\ tr_i < num_segmentos(tr_duration)
    /\ LET outcome == tr_outcomes[tr_i + 1]
           start == inicio_tiempo(tr_i)
           end == fin_tiempo(tr_i, tr_duration)
           text == texto_segmento(tr_i, outcome)
       IN IF outcome \in {"export_error", "other_error"}
          THEN /\ tr_pc' = "except"
               /\ UNCHANGED <<tr_i, tr_file, tr_lines>>
          ELSE /\ tr_file' = tr_file \o SegmentLine(start, end, text)
               /\ tr_lines' = Append(tr_lines, [start |-> start, end |-> end,
                                                text |-> text])
               /\ tr_i' = tr_i + 1
               /\ UNCHANGED tr_pc
    /\ UNCHANGED <<tr_audio_ok, tr_duration, tr_outcomes, tr_timer_set, tr_error,
                   tr_result, tr_parsed>>
    /\ TranscribeFrame

\* Line 47: the loop is over
TranscribeLoopEnd ==
    /\ tr_pc = "loop"
    /\ tr_i >= num_segmentos(tr_duration)
    /\ tr_pc' = "finish"
    /\ UNCHANGED <<tr_audio_ok, tr_duration, tr_outcomes, tr_i, tr_timer_set,
                   tr_file, tr_lines, tr_error, tr_result, tr_parsed>>
    /\ TranscribeFrame

\* Lines 95-98: the error is appended to the file
TranscribeExcept ==
    /\ tr_pc = "except"
    /\ tr_file' = tr_file \o ErrorLine
    /\ tr_error' = TRUE
    /\ tr_pc' = "finish"
    /\ UNCHANGED <<tr_audio_ok, tr_duration, tr_outcomes, tr_i, tr_timer_set,
                   tr_lines, tr_result, tr_parsed>>
    /\ TranscribeFrame

\* Lines 100-109: line 101 reads `tiempo_inicio_total`, a local that is only
\* assigned at line 45; unassigned, the read raises UnboundLocalError
TranscribeFinish ==
    /\ tr_pc = "finish"
    /\ IF tr_timer_set
       THEN /\ tr_file' = tr_file \o Trailer
            /\ tr_result' = "True"
            /\ tr_pc' = "returned"
       ELSE /\ tr_pc' = "raised"
            /\ UNCHANGED <<tr_file, tr_result>>
    /\ UNCHANGED <<tr_audio_ok, tr_duration, tr_outcomes, tr_i, tr_timer_set,
                   tr_lines, tr_error, tr_parsed>>
    /\ TranscribeFrame

\* cleaner.py:213, 220: the file is read and its utterances extracted
ParseTranscript ==
    /\ tr_pc = "returned"
    /\ tr_parsed' = extract_timestamped_segments(tr_file)
    /\ tr_pc' = "parsed"
    /\ UNCHANGED <<tr_audio_ok, tr_duration, tr_outcomes, tr_i, tr_timer_set,
                   tr_file, tr_lines, tr_error, tr_result>>
    /\ TranscribeFrame

InitTranscribe ==
    /\ GenerateIdle
    /\ MainIdle
    /\ OutlineIdle
    /\ VectorizeIdle
    /\ ChunkIdle
    /\ AssignIdle
    /\ MergeIdle
    /\ TopicsIdle
    /\ CleanIdle
    /\ PipeIdle
    /\ tr_pc = "open"
    /\ tr_audio_ok \in BOOLEAN
    /\ tr_duration \in Durations
    /\ tr_outcomes \in [1 .. num_segmentos(tr_duration) -> Outcomes]
    /\ tr_i = 0
    /\ tr_timer_set = FALSE
    /\ tr_file = ""
    /\ tr_lines = << >>
    /\ tr_error = FALSE
    /\ tr_result = "none"
    /\ tr_parsed = << >>

NextTranscribe ==
    \/ TranscribeOpen \/ TranscribeLoad \/ TranscribeSegment \/ TranscribeLoopEnd
    \/ TranscribeExcept \/ TranscribeFinish \/ ParseTranscript

SpecTranscribe == InitTranscribe /\ [][NextTranscribe]_vars

\* Text t ends with `tail`
EndsWith(t, tail) ==
    /\ Len(t) >= Len(tail)
    /\ SubSeq(t, Len(t) - Len(tail) + 1, Len(t)) = tail

\* A step after the opening of the file fails: the load of the audio, or the
\* export or the recognition of a segment that the loop reaches
StepFails ==
    \/ ~tr_audio_ok
    \/ \E k \in 1 .. Len(tr_outcomes) :
          /\ tr_outcomes[k] \in {"export_error", "other_error"}
          /\ \A j \in 1 .. k - 1 : tr_outcomes[j] \notin {"export_error", "other_error"}

\* C29: once the output file has been opened, transcribir_audio_por_segmentos
\* never leaves by an exception; when it is over it has returned True, the
\* file ends with the completion marker, a failed step is recorded in the
\* file, and when only recognitions failed the file has one line per segment,
\* in increasing order of time, with a placeholder for the failed ones.
C29_AlwaysCompletes ==
    /\ tr_pc # "raised"
    /\ tr_pc = "finish" => tr_timer_set
    /\ tr_pc = "returned" =>
          /\ tr_result = "True"
          /\ EndsWith(tr_file, Trailer)
          /\ StepFails => tr_error /\ EndsWith(tr_file, ErrorLine \o Trailer)
          /\ ~StepFails =>
                /\ Len(tr_lines) = num_segmentos(tr_duration)
                /\ \A k \in 1 .. Len(tr_lines) :
                      /\ tr_lines[k].start = inicio_tiempo(k - 1)
                      /\ tr_outcomes[k] = "unknown_value" => tr_lines[k].text = "[inaudible]"
                      /\ tr_outcomes[k] = "request_error"
                            => tr_lines[k].text = "[error de servicio]"

\* The utterances that the segment lines of the file stand for
LinesAsUtterances ==
    [k \in 1 .. Len(tr_lines) |->
        [timestamp |-> [start |-> tr_lines[k].start, end |-> tr_lines[k].end],
         text |-> tr_lines[k].text]]

\* C30: the parse of a file that transcribir_audio_por_segmentos completed
\* without an error gives exactly one utterance per segment line, in order,
\* with the start, the end and the text of that line and nothing else.
C30_RoundTrip ==
    (tr_pc = "parsed" /\ ~tr_error) => tr_parsed = LinesAsUtterances

====
